---- MODULE Spec2Model ----
(***************************************************************************)
(* A model of the procurement scrapers and dashboards of                   *)
(* multi_subsidiary_scraper:                                               *)
(*   - FinalMultiSubsidiaryScraper (final_multi_subsidiary_scraper.py),    *)
(*     the URL-parameter strategy with batch-buffered writes;              *)
(*   - MultiSubsidiaryOBBScraper (multi_subsidiary_scraper.py), the        *)
(*     control-discovery strategy with the consecutive-failure budget;     *)
(*   - OffeneVergabenScraper (basic_scraper.py), the control-discovery     *)
(*     strategy for one target;                                            *)
(*   - process_dataframe and main of the dashboards                        *)
(*     (procurement_dashboard.py).                                         *)
(* One behaviour is one run of one of the scripts (variable program).      *)
(* The browser, the portal, the file system and the user of the dashboard  *)
(* are the environment: what a page load returns, whether a write          *)
(* succeeds and what the user does are chosen with \E.                     *)
(***************************************************************************)
EXTENDS Integers, Sequences, FiniteSets, TLC

(***************************************************************************)
(* Bounds of the model.                                                    *)
(***************************************************************************)
\* Number of configured scrape targets (the scripts configure 22).
NumTargets == 2
\* Page loads of one run that return a table with body rows or that follow a
\* click on the next control.
MaxFetches == 4
\* Irregular environment events of one run: a malformed page, a time-out,
\* an exception inside the extractor, a failed write, a failed driver setup.
MaxFaults == 1
\* MultiSubsidiaryScraperConfig.BATCH_SIZE, the row threshold of a batch
\* write, scaled down (the script configures 1000).
BATCH_SIZE == 2

\* batch_size of main(), the number of targets of a group, scaled down (the
\* script configures 5).
batch_size == 1

\* Longest supplier name, in characters, that the competitor match is
\* applied to.
MaxNameLen == 3

VARIABLES
    program,         \* which script runs: "final", "multi", "basic",
                     \* "process" or "dashboard"
    pc,              \* position of the run in the script
    driver,          \* self.driver: 0 (None) or the number of a browser session
    sessions,        \* browser sessions created so far: "open" or "quit"
    idx,             \* position of the for loop over the configured targets
    dom,             \* the page rendered in the browser (driver.page_source)
    page,            \* page / current_page of scrape_subsidiary
    headers,         \* headers (final: local; multi: self.headers)
    all_data,        \* all_data (final: the batch buffer; multi: self.all_data)
    total_rows,      \* total_rows / total_contracts of scrape_subsidiary
    headers_written, \* headers_written of scrape_subsidiary
    has_content,     \* result of validate_page_content
    page_data,       \* rows extracted from the current page
    files,           \* the output file of each target: a sequence of lines
    grand_total_rows,\* grand_total_rows of scrape_all_subsidiaries
    visited,         \* pages loaded for the current target, with the outcome
    flushes,         \* save_data_batch calls of the current target
    fetches,         \* page loads so far that count against MaxFetches
    faults,          \* irregular events so far (bounded by MaxFaults)
    endless,         \* the target whose portal serves the same page for
                     \* every page number (0: none)
    max_pages,       \* max_pages of scrape_subsidiary (0: None)
    consecutive_failures, \* consecutive_failures of scrape_subsidiary
    exit,            \* how the scrape of the current target ended ("": it has not)
    scraping_stats,  \* self.scraping_stats: the result entry of each target
    used,            \* the browser session through which each target was scraped
    slept,           \* a time.sleep has run since the last page fetch
    spaced,          \* every page fetch so far came after a time.sleep that
                     \* followed the page fetch before it
    waited,          \* the wait for the table and the settle delay have run
                     \* since the last navigation or click
    group,           \* main(): the number of the group being run (0: not main)
    snapshots,       \* the files written by save_to_csv, in order
    df,              \* the DataFrame at hand (process_dataframe: its argument;
                     \* the dashboard's main: the active dataset of the run)
    original_df,     \* main: the result of load_data (<<>>: an empty frame)
    session_state,   \* st.session_state: using_uploaded_data and uploaded_df
                     \* (<<>>: None), once initialized
    uploaded_file,   \* the file held by the st.file_uploader widget
    clicked,         \* the button whose click started the run ("": none)
    sidebar,         \* what the sidebar of the run reports about the upload
    rendered         \* the frame shown by the last run that displayed the
                     \* selected page (<<>>: none yet)

vars == <<program, pc, driver, sessions, idx, dom, page, headers, all_data,
          total_rows, headers_written, has_content, page_data, files,
          grand_total_rows, visited, flushes, fetches, faults, endless,
          max_pages, consecutive_failures, exit, scraping_stats, used,
          slept, spaced, waited, group, snapshots, df, original_df,
          session_state, uploaded_file, clicked, sidebar, rendered>>

\* State that only the control-discovery scraper uses.
multiVars == <<max_pages, consecutive_failures, exit, scraping_stats>>

\* State that only the batch-writing scraper uses.
finalVars == <<headers_written, has_content, files, grand_total_rows, flushes>>

\* Notes on the pacing of the page fetches.
paceVars == <<slept, spaced, waited>>

\* State of main(), the batched run of the control-discovery scraper.
mainVars == <<group, snapshots>>

\* State that only the dashboards use.
dashVars ==
    <<df, original_df, session_state, uploaded_file, clicked, sidebar,
      rendered>>

\* The file uploader holds no file (uploaded_file is None).
NoFile == [present |-> FALSE, readable |-> FALSE, columns |-> {}, rows |-> <<>>]

\* st.session_state before main has initialized it.
NoSession ==
    [initialized |-> FALSE, using_uploaded_data |-> FALSE, uploaded_df |-> <<>>]

\* No dashboard runs.
DashboardIdle ==
    /\ df = <<>>
    /\ original_df = <<>>
    /\ session_state = NoSession
    /\ uploaded_file = NoFile
    /\ clicked = ""
    /\ sidebar = ""
    /\ rendered = <<>>

Targets == 1..NumTargets

(***************************************************************************)
(* Static configuration.                                                   *)
(***************************************************************************)
\* MultiSubsidiaryScraperConfig.SUBSIDIARIES: key, name, id of each target.
SUBSIDIARIES ==
    [t \in Targets |->
        [key  |-> "obb_" \o ToString(t),
         name |-> "name_" \o ToString(t),
         id   |-> "id_" \o ToString(t)]]

\* The column names of the portal's table.
PortalColumns == <<"Bezeichnung", "Lieferant">>

\* The header cells of the table of target t: the tables of two targets need
\* not carry the same column names.
PortalHeader(t) ==
    [j \in 1..Len(PortalColumns) |->
        IF t <= 1 THEN PortalColumns[j]
        ELSE PortalColumns[j] \o "_" \o ToString(t)]

\* Mutant of Extend: the rows of the page put before the rows held so far.
Extend_Front(buf, rows) == rows \o buf

\* list.extend: the rows of the page appended to the rows held so far.
Extend(buf, rows) == buf \o rows

(***************************************************************************)
(* The portal: what the browser renders for page p of target t.  A shape   *)
(* says which parts of the table exist and how many cells each body row    *)
(* has; the cells of a row are named after target, page, row and column.   *)
(***************************************************************************)
Cell(t, p, k, j) ==
    "t" \o ToString(t) \o "p" \o ToString(p) \o "r" \o ToString(k)
        \o "c" \o ToString(j)

Render(t, p, shape) ==
    [table |-> shape.table,
     thead |-> shape.thead,
     hdr   |-> IF shape.thead THEN PortalHeader(t) ELSE <<>>,
     tbody |-> shape.tbody,
     rows  |-> [k \in 1..Len(shape.widths) |->
                  [j \in 1..shape.widths[k] |-> Cell(t, p, k, j)]]]

W == Len(PortalColumns)

Shape(table, thead, tbody, widths) ==
    [table |-> table, thead |-> thead, tbody |-> tbody, widths |-> widths]

\* Well-formed pages with one or two body rows.
RegularShapes ==
    {Shape(TRUE, TRUE, TRUE, <<W>>), Shape(TRUE, TRUE, TRUE, <<W, W>>)}

\* The page after the last one: the table with an empty body.
EmptyShape == Shape(TRUE, TRUE, TRUE, <<>>)

\* No table within the wait (a time-out of WebDriverWait).
NoTableShape == Shape(FALSE, FALSE, FALSE, <<>>)

\* Malformed pages: a row that is one cell short, a row without cells, a
\* table without a header section, a table with neither header section nor
\* body section.
IrregularShapes ==
    {Shape(TRUE, TRUE, TRUE, <<W, W - 1>>),
     Shape(TRUE, TRUE, TRUE, <<0>>),
     Shape(TRUE, FALSE, TRUE, <<W, W>>),
     Shape(TRUE, FALSE, FALSE, <<W, W>>)}

BlankDom == Render(0, 0, NoTableShape)

\* The portals a run may meet: every target has a last page (0), or the
\* first target serves the same page for every page number.
EndlessChoices == {0, 1}

(***************************************************************************)
(* FinalMultiSubsidiaryScraper: pure parts.                                *)
(***************************************************************************)
\* Mutant of ValidatePageContent: the test of the body rows is left out.
ValidatePageContent_TableOnly(d) == d.table

\* validate_page_content: has_content of the rendered page.  A page without
\* a table makes the wait raise, which the except turns into (False, 0).
ValidatePageContent(d) ==
    IF ~d.table THEN FALSE
    ELSE IF ~d.tbody \/ Len(d.rows) = 0 THEN FALSE
    ELSE TRUE

NonEmptyRows(rows) == SelectSeq(rows, LAMBDA r : Len(r) > 0)

\* extract_page_data: <<headers, page_data>>; raised = an exception inside
\* the try, which the except turns into ([], []).
ExtractPageData(d, raised) ==
    IF raised \/ ~d.table THEN <<<<>>, <<>>>>
    ELSE IF ~d.tbody THEN <<d.hdr, <<>>>>
    ELSE <<d.hdr, NonEmptyRows(d.rows)>>

\* Mutant of BatchLines: the two identity cells in the other order.
BatchLines_Swapped(subsidiary_info, hdrs, data_batch, write_headers) ==
    (IF write_headers
        THEN << <<"subsidiary_name", "subsidiary_id">> \o hdrs >>
        ELSE <<>>)
    \o [k \in 1..Len(data_batch) |->
            <<subsidiary_info.id, subsidiary_info.name>> \o data_batch[k]]

\* The lines save_data_batch hands to the csv writer.
BatchLines(subsidiary_info, hdrs, data_batch, write_headers) ==
    (IF write_headers
        THEN << <<"subsidiary_name", "subsidiary_id">> \o hdrs >>
        ELSE <<>>)
    \o [k \in 1..Len(data_batch) |->
            <<subsidiary_info.name, subsidiary_info.id>> \o data_batch[k]]

\* Mutant of SaveDataBatch: the file opened in mode 'w' by every call.
SaveDataBatch_Truncating(file, subsidiary_info, hdrs, data_batch, write_headers, o) ==
    IF ~o.opened THEN file
    ELSE SubSeq(BatchLines(subsidiary_info, hdrs, data_batch, write_headers),
                1, o.written)

\* save_data_batch: the file after the call under write outcome o.
\* o.opened says whether open() succeeded (mode 'w' truncates the file);
\* o.written is the number of lines that reached the file before an
\* exception (all of them: no exception).  The except only logs.
SaveDataBatch(file, subsidiary_info, hdrs, data_batch, write_headers, o) ==
    IF ~o.opened THEN file
    ELSE (IF write_headers THEN <<>> ELSE file)
         \o SubSeq(BatchLines(subsidiary_info, hdrs, data_batch,
                              write_headers), 1, o.written)

\* The outcomes of one write: complete, or cut short by an exception.
WriteOutcomes(nlines, mayFail) ==
    {[opened |-> TRUE, written |-> nlines]} \cup
    (IF mayFail
        THEN {[opened |-> FALSE, written |-> 0]} \cup
             {[opened |-> TRUE, written |-> k] : k \in 0..(nlines - 1)}
        ELSE {})

WriteFailed(o, nlines) == ~o.opened \/ o.written < nlines

(***************************************************************************)
(* FinalMultiSubsidiaryScraper: the run.                                   *)
(***************************************************************************)
InitFinal ==
    /\ program = "final"
    /\ pc = "setup"
    /\ driver = 0
    /\ sessions = <<>>
    /\ idx = 0
    /\ dom = BlankDom
    /\ page = 0
    /\ headers = <<>>
    /\ all_data = <<>>
    /\ total_rows = 0
    /\ headers_written = FALSE
    /\ has_content = FALSE
    /\ page_data = <<>>
    /\ files = [t \in Targets |-> <<>>]
    /\ grand_total_rows = 0
    /\ visited = <<>>
    /\ flushes = <<>>
    /\ fetches = 0
    /\ faults = 0
    /\ endless \in EndlessChoices
    /\ max_pages = 0
    /\ consecutive_failures = 0
    /\ exit = ""
    /\ scraping_stats = <<>>
    /\ used = <<>>
    /\ slept = TRUE
    /\ spaced = TRUE
    /\ waited = FALSE
    /\ group = 0
    /\ snapshots = <<>>
    /\ DashboardIdle

\* The well-formed page of one body row.
OneRowShape == Shape(TRUE, TRUE, TRUE, <<W>>)

HasRows(shape) == shape.table /\ Len(shape.widths) > 0

\* What the portal may serve for the next page load of target t, given the
\* well-formed pages `regular` of the strategy.  The endless target serves
\* the same one-row page whatever page is asked for; its loads are followed
\* one by one up to MaxFetches, and past it where the script itself bounds
\* them (the first load of a target, and the loads under a max_pages cap).
Servable(t, regular) ==
    IF endless = t
        THEN (IF \/ fetches < MaxFetches
                 \/ program = "multi" /\ (pc = "get" \/ max_pages # 0)
                 THEN {OneRowShape} ELSE {})
        ELSE {EmptyShape}
             \cup (IF fetches < MaxFetches THEN regular ELSE {})
             \cup (IF faults < MaxFaults THEN {NoTableShape} ELSE {})
             \cup (IF fetches < MaxFetches /\ faults < MaxFaults
                      THEN IrregularShapes ELSE {})

\* tr elements inside the body section of page d.
BodyRows(d) == IF d.table /\ d.tbody THEN Len(d.rows) ELSE 0

\* The entry of visited for a page load, and the note of what was extracted.
Visit(p, d) == [page |-> p, body_rows |-> BodyRows(d), extracted |-> 0]

Extracted(v, n) == [v EXCEPT ![Len(v)].extracted = n]

IsFault(shape) == shape \in IrregularShapes \cup {NoTableShape}

\* Mutant of Quit: the session is left open.
Quit_Leak(ss, d) == ss

\* driver.quit(): the browser session d is closed.
Quit(ss, d) == [ss EXCEPT ![d] = "quit"]

\* setup_driver inside the try of scrape_all_subsidiaries.
FinalSetup ==
    /\ program = "final" /\ pc = "setup"
    /\ UNCHANGED dashVars
    /\ \/ /\ sessions' = Append(sessions, "open")
          /\ driver' = Len(sessions) + 1
          /\ pc' = "for"
          /\ UNCHANGED faults
       \/ /\ faults < MaxFaults
          /\ faults' = faults + 1
          /\ pc' = "finally"
          /\ UNCHANGED <<sessions, driver>>
    /\ UNCHANGED <<program, idx, dom, page, headers, all_data, total_rows,
                   headers_written, has_content, page_data, files,
                   grand_total_rows, visited, flushes, fetches, endless,
                   multiVars,
                   used, paceVars, mainVars>>

\* The head of the for loop and the first lines of scrape_subsidiary.
FinalFor ==
    /\ program = "final" /\ pc = "for"
    /\ UNCHANGED dashVars
    /\ IF idx < NumTargets
          THEN /\ idx' = idx + 1
               /\ page' = 1
               /\ headers' = <<>>
               /\ all_data' = <<>>
               /\ total_rows' = 0
               /\ headers_written' = FALSE
               /\ visited' = <<>>
               /\ flushes' = <<>>
               /\ used' = (idx + 1 :> driver) @@ used
               /\ pc' = "validate"
          ELSE /\ pc' = "finally"
               /\ UNCHANGED <<idx, page, headers, all_data, total_rows,
                              headers_written, visited, flushes, used>>
    /\ UNCHANGED <<program, driver, sessions, dom, has_content, page_data,
                   files, grand_total_rows, fetches, faults, endless,
                   multiVars,
                   paceVars, mainVars>>

\* validate_page_content(page_url) and the test of has_content.  The page
\* is fetched by driver.get; when the wait finds the table, time.sleep(1)
\* runs before the page is read; when it does not, the except returns at once.
FinalValidate ==
    /\ program = "final" /\ pc = "validate"
    /\ UNCHANGED dashVars
    /\ \E shape \in Servable(idx, RegularShapes) :
          LET d == Render(idx, IF endless = idx THEN 1 ELSE page, shape)
              ok == ValidatePageContent(d)
          IN /\ dom' = d
             /\ has_content' = ok
             /\ visited' = Append(visited, Visit(page, d))
             /\ fetches' = fetches + (IF ok THEN 1 ELSE 0)
             /\ faults' = faults + (IF IsFault(shape) THEN 1 ELSE 0)
             /\ spaced' = (spaced /\ slept)
             /\ slept' = d.table
             /\ waited' = d.table
             /\ pc' = IF ok THEN "extract" ELSE "remaining"
    /\ UNCHANGED <<program, driver, sessions, idx, page, headers, all_data,
                   total_rows, headers_written, page_data, files,
                   grand_total_rows, flushes, endless,
                   multiVars,
                   used, mainVars>>

\* extract_page_data, the header assignment and all_data.extend.
FinalExtract ==
    /\ program = "final" /\ pc = "extract"
    /\ UNCHANGED dashVars
    /\ \E raised \in (IF faults < MaxFaults THEN BOOLEAN ELSE {FALSE}) :
          LET r == ExtractPageData(dom, raised)
          IN /\ faults' = faults + (IF raised THEN 1 ELSE 0)
             /\ headers' = IF headers = <<>> /\ r[1] # <<>> THEN r[1] ELSE headers
             /\ page_data' = r[2]
             /\ visited' = Extracted(visited, Len(r[2]))
             /\ IF r[2] # <<>>
                   THEN /\ all_data' = Extend(all_data, r[2])
                        /\ total_rows' = total_rows + Len(r[2])
                        /\ pc' = "batch"
                   ELSE /\ UNCHANGED <<all_data, total_rows>>
                        /\ pc' = "advance"
    /\ UNCHANGED <<program, driver, sessions, idx, dom, page, headers_written,
                   has_content, files, grand_total_rows, flushes,
                   fetches, endless,
                   multiVars,
                   used, paceVars, mainVars>>

\* Mutants of BatchFull and HasRemaining: a strict comparison; a final write
\* of full batches only.
BatchFull_Strict(buf) == Len(buf) > BATCH_SIZE

HasRemaining_FullOnly(buf) == Len(buf) >= BATCH_SIZE

\* "if len(all_data) >= self.config.BATCH_SIZE" in the loop.
BatchFull(buf) == Len(buf) >= BATCH_SIZE

\* "if all_data" after the loop.
HasRemaining(buf) == buf # <<>>

\* One call of save_data_batch on the buffer, with its outcome o.
Flush(o, in_loop) ==
    LET wh == ~headers_written
        n  == Len(BatchLines(SUBSIDIARIES[idx], headers, all_data, wh))
    IN /\ files' = [files EXCEPT ![idx] =
                       SaveDataBatch(@, SUBSIDIARIES[idx], headers, all_data,
                                     wh, o)]
       /\ flushes' = Append(flushes,
                        [size |-> Len(all_data), write_headers |-> wh,
                         in_loop |-> in_loop, last_page |-> Len(page_data),
                         failed |-> WriteFailed(o, n), rows |-> all_data])
       /\ faults' = faults + (IF WriteFailed(o, n) THEN 1 ELSE 0)

FlushOutcomes ==
    WriteOutcomes(Len(BatchLines(SUBSIDIARIES[idx], headers, all_data,
                                 ~headers_written)), faults < MaxFaults)

\* "Write batch if we've reached batch size".
FinalBatch ==
    /\ program = "final" /\ pc = "batch"
    /\ UNCHANGED dashVars
    /\ IF BatchFull(all_data)
          THEN /\ \E o \in FlushOutcomes : Flush(o, TRUE)
               /\ headers_written' = TRUE
               /\ all_data' = <<>>
          ELSE UNCHANGED <<files, flushes, faults, headers_written, all_data>>
    /\ pc' = "advance"
    /\ UNCHANGED <<program, driver, sessions, idx, dom, page, headers,
                   total_rows, has_content, page_data, grand_total_rows,
                   visited, fetches, endless,
                   multiVars,
                   used, paceVars, mainVars>>

\* page += 1; time.sleep(1).
FinalAdvance ==
    /\ program = "final" /\ pc = "advance"
    /\ UNCHANGED dashVars
    /\ page' = page + 1
    /\ slept' = TRUE
    /\ UNCHANGED <<spaced, waited>>
    /\ pc' = "validate"
    /\ UNCHANGED <<program, driver, sessions, idx, dom, headers, all_data,
                   total_rows, headers_written, has_content, page_data, files,
                   grand_total_rows, visited, flushes, fetches, faults,
                   endless,
                   multiVars,
                   used, mainVars>>

\* "Write remaining data" after the loop.
FinalRemaining ==
    /\ program = "final" /\ pc = "remaining"
    /\ UNCHANGED dashVars
    /\ IF HasRemaining(all_data)
          THEN \E o \in FlushOutcomes : Flush(o, FALSE)
          ELSE UNCHANGED <<files, flushes, faults>>
    /\ pc' = "return"
    /\ UNCHANGED <<program, driver, sessions, idx, dom, page, headers,
                   all_data, total_rows, headers_written, has_content,
                   page_data, grand_total_rows, visited, fetches, endless,
                   multiVars,
                   used, paceVars, mainVars>>

\* return total_rows; grand_total_rows += rows_scraped.
FinalReturn ==
    /\ program = "final" /\ pc = "return"
    /\ UNCHANGED dashVars
    /\ grand_total_rows' = grand_total_rows + total_rows
    /\ pc' = "for"
    /\ UNCHANGED <<program, driver, sessions, idx, dom, page, headers,
                   all_data, total_rows, headers_written, has_content,
                   page_data, files, visited, flushes, fetches, faults,
                   endless,
                   multiVars,
                   used, paceVars, mainVars>>

\* finally: if self.driver: self.driver.quit().
FinalFinally ==
    /\ program = "final" /\ pc = "finally"
    /\ UNCHANGED dashVars
    /\ IF driver # 0
          THEN sessions' = Quit(sessions, driver)
          ELSE UNCHANGED sessions
    /\ pc' = "end"
    /\ UNCHANGED <<program, driver, idx, dom, page, headers, all_data,
                   total_rows, headers_written, has_content, page_data, files,
                   grand_total_rows, visited, flushes, fetches, faults,
                   endless,
                   multiVars,
                   used, paceVars, mainVars>>

\* The while loop on the endless target past MaxFetches page loads: the
\* portal serves the same page with a row again, validate_page_content
\* returns True again and the loop body runs again.  Of these iterations
\* only the position of the loop is followed (at the test, in the body); the
\* counters and the rows they add are not.
FinalBeyond ==
    /\ program = "final" /\ pc \in {"validate", "beyond"}
    /\ UNCHANGED dashVars
    /\ endless = idx /\ fetches >= MaxFetches
    /\ pc' = IF pc = "validate" THEN "beyond" ELSE "validate"
    /\ UNCHANGED <<program, driver, sessions, idx, dom, page, headers,
                   all_data, total_rows, page_data, visited, fetches, faults,
                   endless, finalVars, multiVars,
                   used, paceVars, mainVars>>

NextFinal ==
    \/ FinalSetup
    \/ FinalBeyond
    \/ FinalFor
    \/ FinalValidate
    \/ FinalExtract
    \/ FinalBatch
    \/ FinalAdvance
    \/ FinalRemaining
    \/ FinalReturn
    \/ FinalFinally

(***************************************************************************)
(* MultiSubsidiaryOBBScraper: pure parts.                                  *)
(***************************************************************************)
Range(f) == {f[x] : x \in DOMAIN f}

\* table.find_all('tr'): the row of the header section, then the body rows.
AllTr(d) == (IF d.thead THEN <<d.hdr>> ELSE <<>>) \o d.rows

\* max_consecutive_failures of scrape_subsidiary.
max_consecutive_failures == 3

\* Mutant of ExtractHeaders: the headers taken from every page.
ExtractHeaders_Always(hdrs, d) ==
    Append(IF d.thead THEN d.hdr ELSE <<>>, "Subsidiary")

\* extract_table_data, "Extract headers if not already done".
ExtractHeaders(hdrs, d) ==
    IF hdrs # <<>> THEN hdrs
    ELSE LET found == IF d.thead THEN d.hdr
                      ELSE IF AllTr(d) # <<>> THEN AllTr(d)[1]
                      ELSE <<>>
         IN IF "Subsidiary" \in Range(found) THEN found
            ELSE Append(found, "Subsidiary")

\* extract_table_data, "Extract data rows": the rows looked at.
CandidateRows(hdrs, d) ==
    IF d.tbody THEN d.rows
    ELSE IF hdrs # <<>> /\ AllTr(d) # <<>> THEN Tail(AllTr(d))
    ELSE AllTr(d)

\* The row filter of extract_table_data: a row with cells whose count is
\* the header width minus the subsidiary column.
RowAccepted(row, hdrs) == Len(row) > 0 /\ Len(row) = Len(hdrs) - 1

\* Mutant of ExtractTableData: a table without an accepted row reported as
\* a failure.
ExtractTableData_NeedsRows(hdrs, d, subsidiary_name, raised) ==
    IF raised \/ ~d.table \/ Len(d.rows) = 0
        THEN [success |-> FALSE, headers |-> hdrs, page_data |-> <<>>]
        ELSE LET h    == ExtractHeaders(hdrs, d)
                 kept == SelectSeq(CandidateRows(h, d),
                                   LAMBDA r : RowAccepted(r, h))
             IN [success   |-> TRUE,
                 headers   |-> h,
                 page_data |-> [k \in 1..Len(kept) |->
                                   Append(kept[k], subsidiary_name)]]

\* extract_table_data(subsidiary_name) on page d with self.headers = hdrs;
\* raised = an exception inside the try.
ExtractTableData(hdrs, d, subsidiary_name, raised) ==
    IF raised \/ ~d.table
        THEN [success |-> FALSE, headers |-> hdrs, page_data |-> <<>>]
        ELSE LET h    == ExtractHeaders(hdrs, d)
                 kept == SelectSeq(CandidateRows(h, d),
                                   LAMBDA r : RowAccepted(r, h))
             IN [success   |-> TRUE,
                 headers   |-> h,
                 page_data |-> [k \in 1..Len(kept) |->
                                   Append(kept[k], subsidiary_name)]]

\* A result entry of self.scraping_stats; "" stands for an absent key.
Stats(pages, contracts, status, message, error) ==
    [pages |-> pages, contracts |-> contracts, status |-> status,
     message |-> message, error |-> error]

\* Mutants of ExceptStats, NextFailures and NoDataStats: the status failed;
\* no reset; a row counted.
ExceptStats_Failed(e) == Stats(0, 0, "failed", "", e)

NoDataStats_Counted == Stats(1, 1, "no_data", "No extractable data", "")

NextFailures_NoReset(success, contracts_count, failures) ==
    IF success /\ contracts_count > 0 THEN failures ELSE failures + 1

\* The entry stored when an exception ends the scrape of a target (the
\* except of scrape_subsidiary and the one of scrape_all_subsidiaries).
ExceptStats(e) == Stats(0, 0, "error", "", e)

\* The results returned for the first page: the wait for the table timed
\* out; the page read after the wait has no table; the table has at most one
\* tr; extract_table_data gave no row.
TimeoutStats == Stats(0, 0, "failed", "Page load timeout", "")

NoTableStats == Stats(0, 0, "no_data", "No table found", "")

EmptyStats == Stats(1, 0, "empty", "No contract data", "")

NoDataStats == Stats(1, 0, "no_data", "No extractable data", "")

\* consecutive_failures after one extraction.
NextFailures(success, contracts_count, failures) ==
    IF success /\ contracts_count > 0 THEN 0 ELSE failures + 1

\* The status of the stats built after the scrape loop.
LoopStatus(total_contracts) ==
    IF total_contracts > 0 THEN "completed" ELSE "empty"

(***************************************************************************)
(* MultiSubsidiaryOBBScraper: the run of scrape_all_subsidiaries.          *)
(***************************************************************************)
MaxPagesChoices == {0, 2}

Min(a, b) == IF a < b THEN a ELSE b

\* The last target of the for loop that is running: of all targets when
\* scrape_all_subsidiaries runs on its own, of the group in main().
GroupEnd == IF group = 0 THEN NumTargets ELSE Min(group * batch_size, NumTargets)

\* Mutant of SaveToCsv: the summary file is never written.
SaveToCsv_DataOnly(final, o) ==
    IF all_data = <<>> \/ o = "none" THEN snapshots
    ELSE Append(snapshots,
                [group |-> group, final |-> final,
                 columns |-> headers, data |-> all_data,
                 has_summary |-> FALSE, summary |-> <<>>])

\* save_to_csv: nothing is written when all_data is empty; otherwise the data
\* file and then the summary file.  o says how far the writes got before an
\* exception, which the except of save_to_csv swallows.
SaveToCsv(final, o) ==
    IF all_data = <<>> \/ o = "none" THEN snapshots
    ELSE Append(snapshots,
                [group |-> group, final |-> final,
                 columns |-> headers, data |-> all_data,
                 has_summary |-> (o = "ok"),
                 summary |-> IF o = "ok" THEN scraping_stats ELSE <<>>])

SaveOutcomes ==
    {"ok"} \cup (IF faults < MaxFaults /\ all_data # <<>>
                    THEN {"none", "data_only"} ELSE {})

InitMulti ==
    /\ program = "multi"
    /\ group \in {0, 1}
    /\ pc = IF group = 0 THEN "for" ELSE "main"
    /\ driver = 0
    /\ sessions = <<>>
    /\ idx = 0
    /\ dom = BlankDom
    /\ page = 0
    /\ headers = <<>>
    /\ all_data = <<>>
    /\ total_rows = 0
    /\ headers_written = FALSE
    /\ has_content = FALSE
    /\ page_data = <<>>
    /\ files = [t \in Targets |-> <<>>]
    /\ grand_total_rows = 0
    /\ visited = <<>>
    /\ flushes = <<>>
    /\ fetches = 0
    /\ faults = 0
    /\ endless \in EndlessChoices
    /\ max_pages \in (IF group = 0 THEN MaxPagesChoices ELSE {0})
    /\ consecutive_failures = 0
    /\ exit = ""
    /\ scraping_stats = <<>>
    /\ used = <<>>
    /\ slept = TRUE
    /\ spaced = TRUE
    /\ waited = FALSE
    /\ snapshots = <<>>
    /\ DashboardIdle

Record(t, stats) == (t :> stats) @@ scraping_stats

\* The head of the for loop of scrape_all_subsidiaries; after the loop the
\* method returns, to main() when main() called it.
MultiFor ==
    /\ program = "multi" /\ pc = "for"
    /\ UNCHANGED dashVars
    /\ IF idx < GroupEnd
          THEN idx' = idx + 1 /\ exit' = "" /\ visited' = <<>> /\ pc' = "setup"
          ELSE /\ pc' = IF group = 0 THEN "end" ELSE "save"
               /\ UNCHANGED <<idx, exit, visited>>
    /\ UNCHANGED <<program, driver, sessions, dom, page, headers, all_data,
                   total_rows, page_data, fetches, faults, endless,
                   max_pages, consecutive_failures, scraping_stats,
                   finalVars,
                   used, paceVars, mainVars>>

\* self.setup_driver() for the target; an exception goes to the except of
\* scrape_all_subsidiaries, before or after self.driver was assigned.
MultiSetup ==
    /\ program = "multi" /\ pc = "setup"
    /\ UNCHANGED dashVars
    /\ \/ /\ sessions' = Append(sessions, "open")
          /\ driver' = Len(sessions) + 1
          /\ pc' = "get"
          /\ UNCHANGED <<faults, scraping_stats, exit>>
       \/ /\ faults < MaxFaults
          /\ faults' = faults + 1
          /\ \/ UNCHANGED <<sessions, driver>>
             \/ sessions' = Append(sessions, "open") /\ driver' = Len(sessions) + 1
          /\ scraping_stats' = Record(idx, ExceptStats("setup_driver"))
          /\ exit' = "exception"
          /\ pc' = "finally"
    /\ UNCHANGED <<program, idx, dom, page, headers, all_data, total_rows,
                   page_data, visited, fetches, endless, max_pages,
                   consecutive_failures, finalVars,
                   used, paceVars, mainVars>>

\* scrape_subsidiary up to the loop: driver.get(base_url), the wait for the
\* table and the check of the first page.  A result that is returned here is
\* stored by scrape_all_subsidiaries.  The disjuncts: an exception of
\* driver.get or of the check; a table that the wait saw and the check no
\* longer finds; the page as the portal serves it.  time.sleep(3) follows a
\* driver.get that returned, and wait_for_page_load sleeps 2 s more when it
\* found the table.
MultiGet ==
    /\ program = "multi" /\ pc = "get"
    /\ UNCHANGED dashVars
    /\ used' = (idx :> driver) @@ used
    /\ spaced' = (spaced /\ slept)
    /\ \/ /\ faults < MaxFaults
          /\ faults' = faults + 1
          /\ \E e \in {"driver.get", "check_error"} :
                /\ scraping_stats' = Record(idx, ExceptStats(e))
                /\ slept' = (e = "check_error")
                /\ waited' = (e = "check_error")
          /\ exit' = "exception"
          /\ pc' = "finally"
          /\ UNCHANGED <<dom, page, total_rows, consecutive_failures, visited,
                         fetches>>
       \/ /\ faults < MaxFaults
          /\ faults' = faults + 1
          /\ dom' = Render(idx, 1, NoTableShape)
          /\ visited' = <<Visit(1, dom')>>
          /\ scraping_stats' = Record(idx, NoTableStats)
          /\ slept' = TRUE
          /\ waited' = TRUE
          /\ exit' = "no_table"
          /\ pc' = "finally"
          /\ UNCHANGED <<page, total_rows, consecutive_failures, fetches>>
       \/ \E shape \in Servable(idx, {OneRowShape}) :
            LET d == Render(idx, 1, shape)
            IN /\ dom' = d
               /\ slept' = TRUE
               /\ waited' = d.table
               /\ visited' = <<Visit(1, d)>>
               /\ fetches' = fetches + (IF HasRows(shape) THEN 1 ELSE 0)
               /\ faults' = faults + (IF IsFault(shape) THEN 1 ELSE 0)
               /\ IF ~d.table
                     THEN /\ scraping_stats' = Record(idx, TimeoutStats)
                          /\ exit' = "timeout"
                          /\ pc' = "finally"
                          /\ UNCHANGED <<page, total_rows, consecutive_failures>>
                  ELSE IF Len(AllTr(d)) <= 1
                     THEN /\ scraping_stats' = Record(idx, EmptyStats)
                          /\ exit' = "empty"
                          /\ pc' = "finally"
                          /\ UNCHANGED <<page, total_rows, consecutive_failures>>
                  ELSE /\ page' = 1
                       /\ total_rows' = 0
                       /\ consecutive_failures' = 0
                       /\ pc' = "extract"
                       /\ UNCHANGED <<scraping_stats, exit>>
    /\ UNCHANGED <<program, driver, sessions, idx, headers, all_data,
                   page_data, endless, max_pages, finalVars,
                   mainVars>>

\* The first part of the loop body: extract_table_data and the bookkeeping
\* of consecutive_failures.
MultiExtract ==
    /\ program = "multi" /\ pc = "extract"
    /\ UNCHANGED dashVars
    /\ \E raised \in (IF faults < MaxFaults THEN BOOLEAN ELSE {FALSE}) :
          LET r == ExtractTableData(headers, dom, SUBSIDIARIES[idx].name, raised)
              contracts_count == Len(r.page_data)
          IN /\ faults' = faults + (IF raised THEN 1 ELSE 0)
             /\ headers' = r.headers
             /\ page_data' = r.page_data
             /\ visited' = Extracted(visited, contracts_count)
             /\ all_data' = Extend(all_data, r.page_data)
             /\ consecutive_failures' =
                   NextFailures(r.success, contracts_count, consecutive_failures)
             /\ IF r.success /\ contracts_count > 0
                   THEN /\ total_rows' = total_rows + contracts_count
                        /\ pc' = "click"
                        /\ UNCHANGED <<exit, scraping_stats>>
                   ELSE /\ UNCHANGED total_rows
                        /\ IF page = 1
                              THEN /\ scraping_stats' = Record(idx, NoDataStats)
                                   /\ exit' = "no_data"
                                   /\ pc' = "finally"
                           ELSE IF consecutive_failures'
                                      >= max_consecutive_failures
                              THEN /\ exit' = "failures"
                                   /\ pc' = "stats"
                                   /\ UNCHANGED scraping_stats
                           ELSE /\ pc' = "click"
                                /\ UNCHANGED <<exit, scraping_stats>>
    /\ UNCHANGED <<program, driver, sessions, idx, dom, page, fetches,
                   endless, max_pages, finalVars,
                   used, paceVars, mainVars>>

\* What the browser may show after a click on the next control.  Every
\* page reached through the control counts as a page load of the run.
\* Mutant of CapReached: the loop stopped one page late.
CapReached_OnePageLate(current_page, cap) == cap # 0 /\ current_page > cap

\* if max_pages and current_page >= max_pages (0: None).
CapReached(current_page, cap) == cap # 0 /\ current_page >= cap

Clickable(t) ==
    IF fetches < MaxFetches \/ (endless = t /\ max_pages # 0)
        THEN Servable(t, {OneRowShape}) ELSE {}

\* The second part of the loop body: the max_pages test, click_next_page,
\* current_page += 1 and time.sleep(1).  click_next_page sleeps 1 s before
\* the click and 3 s after it, and does not wait for the table.
MultiClick ==
    /\ program = "multi" /\ pc = "click"
    /\ UNCHANGED dashVars
    /\ IF CapReached(page, max_pages)
          THEN /\ exit' = "max_pages"
               /\ pc' = "stats"
               /\ UNCHANGED <<dom, page, visited, fetches, faults, paceVars>>
          ELSE \/ /\ endless # idx
                  /\ exit' = "no_next"
                  /\ pc' = "stats"
                  /\ UNCHANGED <<dom, page, visited, fetches, faults,
                                 paceVars>>
               \/ /\ endless # idx
                  /\ faults < MaxFaults
                  /\ faults' = faults + 1
                  /\ exit' = "click_failed"
                  /\ pc' = "stats"
                  /\ UNCHANGED <<dom, page, visited, fetches, paceVars>>
               \/ \E shape \in Clickable(idx) :
                    /\ dom' = Render(idx, IF endless = idx THEN 1 ELSE page + 1,
                                     shape)
                    /\ page' = page + 1
                    /\ visited' = Append(visited, Visit(page + 1, dom'))
                    /\ fetches' = fetches + 1
                    /\ faults' = faults + (IF IsFault(shape) THEN 1 ELSE 0)
                    /\ slept' = TRUE
                    /\ waited' = FALSE
                    /\ UNCHANGED spaced
                    /\ pc' = "extract"
                    /\ UNCHANGED exit
    /\ UNCHANGED <<program, driver, sessions, idx, headers, all_data,
                   total_rows, page_data, endless, max_pages,
                   consecutive_failures, scraping_stats, finalVars,
                   used, mainVars>>

\* The stats built after the loop, returned and stored.
MultiStats ==
    /\ program = "multi" /\ pc = "stats"
    /\ UNCHANGED dashVars
    /\ scraping_stats' = Record(idx,
          Stats(page, total_rows, LoopStatus(total_rows), "", ""))
    /\ pc' = "finally"
    /\ UNCHANGED <<program, driver, sessions, idx, dom, page, headers,
                   all_data, total_rows, page_data, visited, fetches, faults,
                   endless, max_pages, consecutive_failures, exit, finalVars,
                   used, paceVars, mainVars>>

\* finally: quit the driver of this target, self.driver = None; then
\* time.sleep(2) unless the target is the last one of the loop.
MultiFinally ==
    /\ program = "multi" /\ pc = "finally"
    /\ UNCHANGED dashVars
    /\ IF driver # 0
          THEN sessions' = Quit(sessions, driver)
          ELSE UNCHANGED sessions
    /\ driver' = 0
    /\ slept' = (slept \/ idx < GroupEnd)
    /\ UNCHANGED <<spaced, waited>>
    /\ pc' = "for"
    /\ UNCHANGED <<program, idx, dom, page, headers, all_data, total_rows,
                   page_data, visited, fetches, faults, endless, max_pages,
                   consecutive_failures, exit, scraping_stats, finalVars,
                   used, mainVars>>

\* The while True loop on the endless target past MaxFetches page loads when
\* max_pages is None: the next control is found and clicked again and the
\* table yields its row again.  Of these iterations only the position of the
\* loop is followed (at the click, in the extraction); the counters and the
\* rows they add are not.
MultiBeyond ==
    /\ program = "multi" /\ pc \in {"click", "beyond"}
    /\ UNCHANGED dashVars
    /\ endless = idx /\ max_pages = 0 /\ fetches >= MaxFetches
    /\ pc' = IF pc = "click" THEN "beyond" ELSE "click"
    /\ UNCHANGED <<program, driver, sessions, idx, dom, page, headers,
                   all_data, total_rows, page_data, visited, fetches, faults,
                   endless, finalVars, multiVars,
                   used, paceVars, mainVars>>

\* main(): the head of the loop over the groups.  A new scraper is made for
\* the targets of the group; it takes over all_data, headers and
\* scraping_stats of the main scraper, and its driver is None.
MainBatch ==
    /\ program = "multi" /\ pc = "main"
    /\ UNCHANGED dashVars
    /\ idx' = (group - 1) * batch_size
    /\ pc' = "for"
    /\ UNCHANGED <<program, driver, sessions, dom, page, headers, all_data,
                   total_rows, page_data, visited, fetches, faults, endless,
                   max_pages, consecutive_failures, exit, scraping_stats,
                   finalVars, used, paceVars, mainVars>>

\* main(): the results of the group go back to the main scraper and
\* save_to_csv writes the intermediate files; then the next group, if any.
MainSave ==
    /\ program = "multi" /\ pc = "save"
    /\ UNCHANGED dashVars
    /\ \E o \in SaveOutcomes :
          /\ snapshots' = SaveToCsv(FALSE, o)
          /\ faults' = faults + (IF o = "ok" THEN 0 ELSE 1)
    /\ IF group * batch_size < NumTargets
          THEN group' = group + 1 /\ pc' = "main"
          ELSE pc' = "final_save" /\ UNCHANGED group
    /\ UNCHANGED <<program, driver, sessions, idx, dom, page, headers,
                   all_data, total_rows, page_data, visited, fetches, endless,
                   max_pages, consecutive_failures, exit, scraping_stats,
                   finalVars, used, paceVars>>

\* main(): "Final save with complete dataset".
MainFinalSave ==
    /\ program = "multi" /\ pc = "final_save"
    /\ UNCHANGED dashVars
    /\ \E o \in SaveOutcomes :
          /\ snapshots' = SaveToCsv(TRUE, o)
          /\ faults' = faults + (IF o = "ok" THEN 0 ELSE 1)
    /\ pc' = "end"
    /\ UNCHANGED <<program, driver, sessions, idx, dom, page, headers,
                   all_data, total_rows, page_data, visited, fetches, endless,
                   max_pages, consecutive_failures, exit, scraping_stats,
                   finalVars, used, paceVars, group>>

NextMulti ==
    \/ MainBatch
    \/ MainSave
    \/ MainFinalSave
    \/ MultiFor
    \/ MultiBeyond
    \/ MultiSetup
    \/ MultiGet
    \/ MultiExtract
    \/ MultiClick
    \/ MultiStats
    \/ MultiFinally

Init == InitFinal \/ InitMulti

Next == NextFinal \/ NextMulti

Spec == Init /\ [][Next]_vars

\* The scripts are sequential programs: a step that can be taken is taken.
FairSpec == Spec /\ WF_vars(Next)

\* The run of final_multi_subsidiary_scraper.py alone.
SpecFinal == InitFinal /\ [][NextFinal]_vars

\* The run of multi_subsidiary_scraper.py alone.
SpecMulti == InitMulti /\ [][NextMulti]_vars

(***************************************************************************)
(* The dashboards (procurement_dashboard.py): process_dataframe.           *)
(***************************************************************************)
\* The variables of the scrapers.
scraperVars ==
    <<driver, sessions, idx, dom, page, headers, all_data, total_rows,
      headers_written, has_content, page_data, files, grand_total_rows,
      visited, flushes, fetches, faults, endless, max_pages,
      consecutive_failures, exit, scraping_stats, used, slept, spaced,
      waited, group, snapshots>>

\* No scraper runs.
ScraperIdle ==
    /\ driver = 0
    /\ sessions = <<>>
    /\ idx = 0
    /\ dom = BlankDom
    /\ page = 0
    /\ headers = <<>>
    /\ all_data = <<>>
    /\ total_rows = 0
    /\ headers_written = FALSE
    /\ has_content = FALSE
    /\ page_data = <<>>
    /\ files = [t \in Targets |-> <<>>]
    /\ grand_total_rows = 0
    /\ visited = <<>>
    /\ flushes = <<>>
    /\ fetches = 0
    /\ faults = 0
    /\ endless = 0
    /\ max_pages = 0
    /\ consecutive_failures = 0
    /\ exit = ""
    /\ scraping_stats = <<>>
    /\ used = <<>>
    /\ slept = TRUE
    /\ spaced = TRUE
    /\ waited = FALSE
    /\ group = 0
    /\ snapshots = <<>>

\* A text is the sequence of its characters.  The characters of the supplier
\* names: letters of the competitor names in upper case, one of them in
\* lower case too, and the blank.
Chars == {"E", "e", "Y", "N", "C", " "}

\* CONSULTING_COMPANIES, cut down to two of its names: EY and NEC.
CONSULTING_COMPANIES == << <<"E", "Y">>, <<"N", "E", "C">> >>

\* A missing value of a column, and the None of Consulting_Company.
NaN == <<"NaN">>

None == <<"None">>

Texts(n) == UNION {[1..k -> Chars] : k \in 0..n}

UpperToLower == ("E" :> "e") @@ ("Y" :> "y") @@ ("N" :> "n") @@ ("C" :> "c")

\* str.lower
Lower(text) ==
    [i \in 1..Len(text) |->
        IF text[i] \in DOMAIN UpperToLower THEN UpperToLower[text[i]]
        ELSE text[i]]

\* part in text
Contains(text, part) ==
    \E i \in 1..(Len(text) - Len(part) + 1) :
        SubSeq(text, i, i + Len(part) - 1) = part

RECURSIVE LStrip(_)
LStrip(text) ==
    IF text # <<>> /\ text[1] = " " THEN LStrip(Tail(text)) ELSE text

RECURSIVE RStrip(_)
RStrip(text) ==
    IF text # <<>> /\ text[Len(text)] = " "
        THEN RStrip(SubSeq(text, 1, Len(text) - 1))
        ELSE text

\* Series.str.strip of one value: a missing value stays missing.
Strip(x) == IF x = NaN THEN NaN ELSE LStrip(RStrip(x))

\* The lambda of Is_Consulting: consulting in str(x), as written.
IsConsulting(x) ==
    IF x # NaN
        THEN \E k \in DOMAIN CONSULTING_COMPANIES :
                 Contains(x, CONSULTING_COMPANIES[k])
        ELSE FALSE

\* consulting_matches: the cleaned names of the frame, missing values
\* dropped, that contain a competitor name, both in lower case.  The list is
\* only tested for membership; it is kept as a set.
ConsultingMatches(frame) ==
    {frame[k].Lieferant_Clean : k \in
        {k \in DOMAIN frame :
            /\ frame[k].Lieferant_Clean # NaN
            /\ \E c \in DOMAIN CONSULTING_COMPANIES :
                  Contains(Lower(frame[k].Lieferant_Clean),
                           Lower(CONSULTING_COMPANIES[c]))}}

\* The lambda of Consulting_Company.
ConsultingCompany(x, consulting_matches) ==
    IF x \in consulting_matches THEN x ELSE None

\* The .str accessor raises on a column that holds no text at all.
HasText(frame) == \E k \in DOMAIN frame : frame[k].Lieferant # NaN

\* process_dataframe: the columns Lieferant_Clean, Is_Consulting and
\* Consulting_Company added to the frame.
ProcessDataframe(frame) ==
    LET cleaned == [k \in DOMAIN frame |->
                       [Lieferant       |-> frame[k].Lieferant,
                        Lieferant_Clean |-> Strip(frame[k].Lieferant)]]
        matches == ConsultingMatches(cleaned)
    IN [k \in DOMAIN frame |->
           [Lieferant          |-> cleaned[k].Lieferant,
            Lieferant_Clean    |-> cleaned[k].Lieferant_Clean,
            Is_Consulting      |-> IsConsulting(cleaned[k].Lieferant_Clean),
            Consulting_Company |->
                ConsultingCompany(cleaned[k].Lieferant_Clean, matches)]]

\* The supplier names of the first row of a frame, and those of its second.
Suppliers == Texts(MaxNameLen) \cup {NaN}

OtherSuppliers == {NaN, <<"e", "Y">>, <<"C", " ">>}

\* A call of process_dataframe with a frame of two rows.
InitProcess ==
    /\ program = "process"
    /\ pc = "call"
    /\ \E a \in Suppliers, b \in OtherSuppliers :
          df = << [Lieferant |-> a], [Lieferant |-> b] >>
    /\ original_df = <<>>
    /\ session_state = NoSession
    /\ uploaded_file = NoFile
    /\ clicked = ""
    /\ sidebar = ""
    /\ rendered = <<>>
    /\ ScraperIdle

ProcessCall ==
    /\ program = "process" /\ pc = "call"
    /\ IF HasText(df)
          THEN df' = ProcessDataframe(df) /\ pc' = "return"
          ELSE df' = df /\ pc' = "raised"
    /\ UNCHANGED <<program, scraperVars, original_df, session_state,
                   uploaded_file, clicked, sidebar, rendered>>

NextProcess == ProcessCall

SpecProcess == InitProcess /\ [][NextProcess]_vars

(***************************************************************************)
(* The dashboard of the single subsidiary: main, run by Streamlit from the *)
(* top at the start of the session, after every user interaction and after *)
(* st.rerun().  st.session_state and the widgets keep their values from    *)
(* run to run; an interaction while a run is under way ends that run.      *)
(***************************************************************************)
\* required_columns of validate_csv_format.
RequiredColumns ==
    {"Bezeichnung", "Lieferant", "Kategorie (CPV Hauptteil)", "Bieter",
     "Summe", "Aktualisiert"}

Digits == {"0", "1"}

\* pd.read_csv reads a cell as a number: digits with at most one point.
IsNumberText(cell) ==
    /\ \E i \in DOMAIN cell : cell[i] \in Digits
    /\ \A i \in DOMAIN cell : cell[i] \in Digits \cup {"."}
    /\ Cardinality({i \in DOMAIN cell : cell[i] = "."}) <= 1

\* uploaded_df['Summe'].dtype == 'object': some cell is text.
SummeIsObject(rows) ==
    \E k \in DOMAIN rows :
        rows[k].Summe # NaN /\ ~IsNumberText(rows[k].Summe)

\* str(val).replace('.','').replace(',','').replace(' ','').isdigit()
LooksMonetary(val) ==
    LET rest == SelectSeq(val, LAMBDA c : c \notin {".", ",", " "})
    IN rest # <<>> /\ \A i \in DOMAIN rest : rest[i] \in Digits

\* validate_csv_format: the message of the ValueError raised, "" when the
\* function returns True.  The frames of the model have fewer than ten
\* rows, so that head(10) keeps them all.
ValidateCsvFormat(file) ==
    IF ~(RequiredColumns \subseteq file.columns)
        THEN "Missing required columns"
    ELSE IF Len(file.rows) = 0
        THEN "CSV file is empty"
    ELSE IF /\ SummeIsObject(file.rows)
            /\ ~\E k \in DOMAIN file.rows :
                   /\ file.rows[k].Summe # NaN
                   /\ LooksMonetary(file.rows[k].Summe)
        THEN "'Summe' column doesn't appear to contain valid monetary values"
    ELSE ""

\* The exception raised inside the try of the upload handler before the
\* frame is stored, "" when there is none: by pd.read_csv, by
\* validate_csv_format, or by the .str accessor of process_dataframe on a
\* column without text.
UploadError(file) ==
    IF ~file.readable THEN "read_csv failed"
    ELSE IF ValidateCsvFormat(file) # "" THEN ValidateCsvFormat(file)
    ELSE IF ~SummeIsObject(file.rows) \/ ~HasText(file.rows)
        THEN "Can only use .str accessor with string values"
    ELSE ""

\* The files a user may put into the uploader.
UploadSuppliers == {<<"E", "Y">>, <<"e", "Y">>}

UploadSums == {<<"1", ".", "0", ",", "1">>, <<"x">>, <<"1", "0">>, NaN}

UploadRows ==
    {<<>>} \cup
    {<< [Lieferant |-> l, Summe |-> m] >> :
        l \in UploadSuppliers \cup {NaN}, m \in UploadSums}

UploadFiles ==
    {[present |-> TRUE, readable |-> FALSE, columns |-> {}, rows |-> <<>>]}
    \cup
    {[present |-> TRUE, readable |-> TRUE, columns |-> c, rows |-> r] :
        c \in {RequiredColumns, RequiredColumns \ {"Summe"}},
        r \in UploadRows}

\* The frame load_data returns when it finds the data file.
OriginalFrame ==
    ProcessDataframe(<< [Lieferant |-> <<"N", "E", "C">>],
                        [Lieferant |-> <<"C", " ", "Y">>] >>)

InitDashboard ==
    /\ program = "dashboard"
    /\ pc = "load"
    /\ df = <<>>
    /\ original_df \in {OriginalFrame, <<>>}
    /\ session_state = NoSession
    /\ uploaded_file = NoFile
    /\ clicked = ""
    /\ sidebar = ""
    /\ rendered = <<>>
    /\ ScraperIdle

\* The user puts a file into the uploader.
UserUploads ==
    /\ program = "dashboard"
    /\ \E f \in UploadFiles : uploaded_file' = f
    /\ clicked' = ""
    /\ pc' = "load"
    /\ UNCHANGED <<program, scraperVars, df, original_df, session_state,
                   sidebar, rendered>>

\* The user takes the file out of the uploader.
UserRemovesFile ==
    /\ program = "dashboard"
    /\ uploaded_file.present
    /\ uploaded_file' = NoFile
    /\ clicked' = ""
    /\ pc' = "load"
    /\ UNCHANGED <<program, scraperVars, df, original_df, session_state,
                   sidebar, rendered>>

\* The user clicks one of the two reset buttons, which the last run showed.
UserClicks ==
    /\ program = "dashboard" /\ pc = "idle"
    /\ session_state.using_uploaded_data
    /\ \E b \in {"reset_data_btn", "reset_data_expanded"} : clicked' = b
    /\ pc' = "load"
    /\ UNCHANGED <<program, scraperVars, df, original_df, session_state,
                   uploaded_file, sidebar, rendered>>

\* The user changes the page or a filter.
UserSelects ==
    /\ program = "dashboard" /\ pc = "idle"
    /\ original_df # <<>>
    /\ clicked' = ""
    /\ pc' = "load"
    /\ UNCHANGED <<program, scraperVars, df, original_df, session_state,
                   uploaded_file, sidebar, rendered>>

\* original_df = load_data(); st.stop() on an empty frame.
DashLoad ==
    /\ program = "dashboard" /\ pc = "load"
    /\ df' = <<>>
    /\ sidebar' = ""
    /\ IF original_df = <<>>
          THEN pc' = "stopped" /\ rendered' = <<>>
          ELSE pc' = "init" /\ UNCHANGED rendered
    /\ UNCHANGED <<program, scraperVars, original_df, session_state,
                   uploaded_file, clicked>>

\* "Initialize session state for data management".
DashInit ==
    /\ program = "dashboard" /\ pc = "init"
    /\ session_state' =
          IF session_state.initialized THEN session_state
          ELSE [initialized |-> TRUE, using_uploaded_data |-> FALSE,
                uploaded_df |-> <<>>]
    /\ pc' = "select"
    /\ UNCHANGED <<program, scraperVars, df, original_df, uploaded_file,
                   clicked, sidebar, rendered>>

\* "Use uploaded data if available, otherwise use original".
DashSelect ==
    /\ program = "dashboard" /\ pc = "select"
    /\ df' = IF /\ session_state.using_uploaded_data
                /\ session_state.uploaded_df # <<>>
                THEN session_state.uploaded_df
                ELSE original_df
    /\ pc' = "upload"
    /\ UNCHANGED <<program, scraperVars, original_df, session_state,
                   uploaded_file, clicked, sidebar, rendered>>

\* "Handle file upload": the frame is read, validated, processed and stored
\* and st.rerun() starts the script again; an exception is reported in the
\* sidebar and using_uploaded_data is set to False.
DashUpload ==
    /\ program = "dashboard" /\ pc = "upload"
    /\ IF ~uploaded_file.present
          THEN /\ pc' = "reset"
               /\ UNCHANGED <<session_state, sidebar, clicked>>
          ELSE IF UploadError(uploaded_file) = ""
          THEN /\ session_state' =
                     [initialized |-> TRUE, using_uploaded_data |-> TRUE,
                      uploaded_df |-> ProcessDataframe(uploaded_file.rows)]
               /\ sidebar' = "Successfully loaded"
               /\ clicked' = ""
               /\ pc' = "load"
          ELSE /\ sidebar' = "Upload failed"
               /\ session_state' =
                     [session_state EXCEPT !.using_uploaded_data = FALSE]
               /\ pc' = "reset"
               /\ UNCHANGED clicked
    /\ UNCHANGED <<program, scraperVars, df, original_df, uploaded_file,
                   rendered>>

\* The stores of a reset button, followed by st.rerun().
ResetToOriginal ==
    /\ session_state' = [session_state EXCEPT !.using_uploaded_data = FALSE,
                                              !.uploaded_df = <<>>]
    /\ clicked' = ""
    /\ pc' = "load"

\* "Reset to original data button".
DashReset ==
    /\ program = "dashboard" /\ pc = "reset"
    /\ IF session_state.using_uploaded_data /\ clicked = "reset_data_btn"
          THEN ResetToOriginal
          ELSE pc' = "indicator" /\ UNCHANGED <<session_state, clicked>>
    /\ UNCHANGED <<program, scraperVars, df, original_df, uploaded_file,
                   sidebar, rendered>>

\* "Data source indicator with additional controls".
DashIndicator ==
    /\ program = "dashboard" /\ pc = "indicator"
    /\ IF /\ session_state.using_uploaded_data
          /\ clicked = "reset_data_expanded"
          THEN ResetToOriginal
          ELSE pc' = "render" /\ UNCHANGED <<session_state, clicked>>
    /\ UNCHANGED <<program, scraperVars, df, original_df, uploaded_file,
                   sidebar, rendered>>

\* "Display selected page", the download section and the footer; the run
\* is complete.
DashRender ==
    /\ program = "dashboard" /\ pc = "render"
    /\ rendered' = df
    /\ clicked' = ""
    /\ pc' = "idle"
    /\ UNCHANGED <<program, scraperVars, df, original_df, session_state,
                   uploaded_file, sidebar>>

\* The steps of the script, as opposed to those of the user.
DashRun ==
    \/ DashLoad
    \/ DashInit
    \/ DashSelect
    \/ DashUpload
    \/ DashReset
    \/ DashIndicator
    \/ DashRender

NextDashboard ==
    \/ UserUploads
    \/ UserRemovesFile
    \/ UserClicks
    \/ UserSelects
    \/ DashRun

SpecDashboard == InitDashboard /\ [][NextDashboard]_vars

\* The script runs on; the user need not do anything.
FairSpecDashboard == SpecDashboard /\ WF_vars(DashRun)

(***************************************************************************)
(* Properties.                                                             *)
(***************************************************************************)
FinalInTarget ==
    /\ program = "final"
    /\ pc \in {"validate", "extract", "batch", "advance", "remaining", "return"}

Last(seq) == seq[Len(seq)]

RECURSIVE SumSizes(_)
SumSizes(fl) == IF fl = <<>> THEN 0 ELSE fl[1].size + SumSizes(Tail(fl))

IsHeaderLine(line) == line[1] = "subsidiary_name"

DataLines(file) == SelectSeq(file, LAMBDA line : ~IsHeaderLine(line))

\* C1: in the URL-parameter strategy the pages loaded for a target are
\* 1, 2, 3, ... in that order, each once; every page before the last one
\* loaded had body rows, the loop goes on after a page with body rows, and it
\* is left exactly on the first page with zero body rows, which is the last
\* page loaded: N pages with rows and then an empty one give N + 1 loads.
C1_UrlPaginationStopsAtFirstEmptyPage ==
    FinalInTarget =>
        /\ \A k \in 1..Len(visited) : visited[k].page = k
        /\ \A k \in 1..(Len(visited) - 1) : visited[k].body_rows > 0
        /\ pc = "validate" => Len(visited) = page - 1
        /\ pc \in {"extract", "batch", "advance"} =>
              Len(visited) = page /\ Last(visited).body_rows > 0
        /\ pc \in {"remaining", "return"} =>
              Len(visited) = page /\ Last(visited).body_rows = 0

\* Two pages with rows, then the empty page: three loads, and the loop is left.
C1_Witness ==
    /\ program = "final" /\ pc = "return"
    /\ Len(visited) = 3
    /\ visited[1].body_rows > 0 /\ visited[2].body_rows > 0
    /\ visited[3].body_rows = 0
    /\ dom.table

LoopRunning ==
    \/ /\ program = "final"
       /\ pc \in {"validate", "extract", "batch", "advance", "beyond"}
    \/ program = "multi" /\ pc \in {"extract", "click", "beyond"}

\* C2: for both strategies and every behaviour of the portal the scrape loop
\* of a target, once entered, is eventually left.
C2_ScrapeLoopTerminates == LoopRunning ~> ~LoopRunning

\* With a portal that ends (no endless target) every run reaches its end, and
\* no run stops anywhere else: the bounds of the model stop no run.
FinitePortalRunEnds == (endless = 0) => <>(pc = "end")

RunStopsOnlyAtEnd == (ENABLED Next) \/ pc = "end"

\* Positions of the control-discovery run at which the current target has
\* its result entry.
BetweenTargets == {"finally", "for", "end", "main", "save", "final_save"}

NoWriteFailed == \A k \in DOMAIN flushes : ~flushes[k].failed

\* C4 (as amended): when scrape_subsidiary returns, every extracted row has
\* been handed to save_data_batch (the batches add up to total_rows); the
\* file holds at most total_rows data rows, and exactly total_rows when no
\* write of the target failed.
C4_AllRowsFlushedOnExit ==
    program = "final" /\ pc = "return" =>
        /\ SumSizes(flushes) = total_rows
        /\ Len(DataLines(files[idx])) <= total_rows
        /\ NoWriteFailed => Len(DataLines(files[idx])) = total_rows

\* The loop is left on a page-load error with rows still buffered, and the
\* file holds them all.
C4_Witness ==
    /\ program = "final" /\ pc = "return"
    /\ ~dom.table
    /\ flushes # <<>> /\ ~Last(flushes).in_loop
    /\ total_rows > BATCH_SIZE
    /\ Len(DataLines(files[idx])) = total_rows

\* C4 (as stated): when scrape_subsidiary returns, the data rows of the file
\* are as many as the rows extracted.
C4_FileHoldsAllRows ==
    program = "final" /\ pc = "return" =>
        Len(DataLines(files[idx])) = total_rows

\* All pages of the target yielded the same number of rows, a divisor of the
\* batch threshold (pages that yielded none aside).
UniformPages ==
    \E r \in 1..BATCH_SIZE :
        /\ BATCH_SIZE % r = 0
        /\ \A k \in DOMAIN visited : visited[k].extracted \in {0, r}

\* C5 (as amended): a write inside the loop takes the whole buffer, which
\* holds at least BATCH_SIZE rows and fewer than BATCH_SIZE plus the rows of
\* the page just added; the write after the loop is the last one and takes
\* fewer than BATCH_SIZE rows.  When the pages are uniform the writes inside
\* the loop take exactly BATCH_SIZE rows, and R rows make ceil(R / BATCH_SIZE)
\* writes.
C5_FlushSizes ==
    program = "final" =>
        /\ \A k \in DOMAIN flushes :
              IF flushes[k].in_loop
                 THEN /\ flushes[k].size >= BATCH_SIZE
                      /\ flushes[k].size - flushes[k].last_page < BATCH_SIZE
                 ELSE /\ flushes[k].size > 0
                      /\ flushes[k].size < BATCH_SIZE
                      /\ k = Len(flushes)
        /\ UniformPages =>
              /\ \A k \in DOMAIN flushes :
                    flushes[k].in_loop => flushes[k].size = BATCH_SIZE
              /\ pc = "return" =>
                    Len(flushes) = (total_rows + BATCH_SIZE - 1) \div BATCH_SIZE

\* A write inside the loop of more than BATCH_SIZE rows, then the last write.
C5_Witness ==
    /\ program = "final" /\ pc = "return"
    /\ Len(flushes) >= 2
    /\ flushes[1].in_loop /\ flushes[1].size > BATCH_SIZE
    /\ ~Last(flushes).in_loop

\* C5 (as stated): every write inside the loop takes exactly BATCH_SIZE rows
\* and the write after the loop fewer, whatever the page sizes are.
C5_LoopFlushesExactlyBatchSize ==
    program = "final" =>
        \A k \in DOMAIN flushes :
            IF flushes[k].in_loop
               THEN flushes[k].size = BATCH_SIZE
               ELSE flushes[k].size < BATCH_SIZE

BufferBounded ==
    program = "final" =>
        IF pc = "batch"
           THEN Len(all_data) < BATCH_SIZE + Len(page_data)
           ELSE Len(all_data) < BATCH_SIZE

FlushEmptiesBuffer ==
    (program = "final" /\ pc = "batch" /\ Len(flushes') > Len(flushes))
        => all_data' = <<>>

\* C6 (as amended): outside the step between all_data.extend and the test of
\* the batch size the buffer holds fewer than BATCH_SIZE rows; in that step it
\* holds fewer than BATCH_SIZE plus the rows of the page just added; and a
\* write inside the loop leaves it empty.
C6_BufferBoundedAndEmptiedByFlush ==
    [](BufferBounded) /\ [][FlushEmptiesBuffer]_vars

\* The buffer is empty right after a write of more than BATCH_SIZE rows.
C6_Witness ==
    /\ program = "final" /\ pc = "advance"
    /\ flushes # <<>> /\ Last(flushes).in_loop
    /\ Last(flushes).size > BATCH_SIZE
    /\ Len(visited) = page /\ Last(visited).extracted > 0
    /\ all_data = <<>>

\* C6 (as stated): in every state the buffer holds at most BATCH_SIZE rows.
C6_BufferAtMostBatchSize ==
    program = "final" => Len(all_data) <= BATCH_SIZE

\* C7: a non-empty output file starts with the header line and holds no
\* other header line.
C7_FileStartsWithOneHeader ==
    program = "final" =>
        \A t \in Targets :
            files[t] # <<>> =>
                /\ IsHeaderLine(files[t][1])
                /\ \A k \in 2..Len(files[t]) : ~IsHeaderLine(files[t][k])

\* C8: every row of the batch buffer or of the accumulated dataset has as
\* many cells as the header (in the control-discovery scraper both counts
\* include the subsidiary column).
C8_AdmittedRowsMatchHeaderWidth ==
    headers # <<>> =>
        \A k \in DOMAIN all_data : Len(all_data[k]) = Len(headers)

RECURSIVE TrailingFailures(_)
TrailingFailures(v) ==
    IF v = <<>> \/ Last(v).extracted > 0 THEN 0
    ELSE 1 + TrailingFailures(SubSeq(v, 1, Len(v) - 1))

\* C9: in the control-discovery loop consecutive_failures is the number of
\* extractions without a row since the last extraction with one; it never
\* exceeds 3; the loop goes on to the next page while it is below 3 and is
\* left for that reason exactly when it is 3.
C9_ConsecutiveFailureBudget ==
    program = "multi" =>
        /\ consecutive_failures <= max_consecutive_failures
        /\ pc \in {"click", "stats"} =>
              consecutive_failures = TrailingFailures(visited)
        /\ pc = "click" => consecutive_failures < max_consecutive_failures
        /\ pc = "stats" =>
              (exit = "failures"
                  <=> consecutive_failures = max_consecutive_failures)

\* Two failures after the first page did not stop the target, and the next
\* extraction with a row has reset the counter.
C9_Witness ==
    /\ program = "multi" /\ pc = "click"
    /\ Len(visited) = 4
    /\ visited[2].extracted = 0 /\ visited[3].extracted = 0
    /\ visited[4].extracted > 0
    /\ consecutive_failures = 0

\* C10: a target whose loop was left because the failure budget was used up
\* has a result entry of status failed.
C10_BudgetExhaustedIsFailed ==
    (program = "multi" /\ exit = "failures" /\ idx \in DOMAIN scraping_stats)
        => scraping_stats[idx].status = "failed"

\* The first page of the target gave nothing: how the scrape of the target
\* ended then.
FirstPageExits == {"timeout", "no_table", "empty", "no_data"}

FirstPageStatus ==
    [timeout |-> "failed", no_table |-> "no_data", empty |-> "empty",
     no_data |-> "no_data"]

\* C11 (as amended): in the control-discovery scraper a first page without
\* usable data ends the target at once, with 0 rows, no click and no further
\* page load; the status is failed when the wait for the table timed out,
\* empty when the table has at most one tr, and no_data when the table is
\* gone at the check or the extractor accepted no row.  The loop goes on to
\* a click only after a first page that gave a row.
C11_FirstPageWithoutDataEndsTarget ==
    program = "multi" =>
        /\ (pc = "finally" /\ exit \in FirstPageExits) =>
              /\ Len(visited) = 1 /\ visited[1].extracted = 0
              /\ scraping_stats[idx].contracts = 0
              /\ scraping_stats[idx].pages <= 1
              /\ scraping_stats[idx].status = FirstPageStatus[exit]
        /\ pc \in {"click", "stats"} => visited[1].extracted > 0

\* A first page whose only row the extractor did not accept.
C11_Witness ==
    /\ program = "multi" /\ pc = "finally" /\ exit = "no_data"
    /\ visited[1].body_rows > 0
    /\ scraping_stats[idx].status = "no_data"

\* C11 (as stated): a first page without usable data gives the status
\* no_data and 0 rows.
C11_FirstPageWithoutDataIsNoData ==
    (program = "multi" /\ pc = "finally" /\ exit \in FirstPageExits) =>
        /\ scraping_stats[idx].status = "no_data"
        /\ scraping_stats[idx].contracts = 0

\* The statuses that the control-discovery scraper records.
RecordedStatuses == {"completed", "empty", "no_data", "failed", "error"}

LiveSessions == {k \in DOMAIN sessions : sessions[k] = "open"}

\* C13 (as amended): at any moment at most one browser session is live, and
\* it is the one self.driver refers to.  The control-discovery scraper opens
\* a session for each target and has closed it when the next target begins:
\* no two targets are scraped through the same session.  The batch-writing
\* scraper opens one session for the run and scrapes every target through it.
C13_SessionScoping ==
    /\ Cardinality(LiveSessions) <= 1
    /\ LiveSessions \subseteq {driver}
    /\ program = "multi" =>
          /\ \A t, u \in DOMAIN used : used[t] = used[u] => t = u
          /\ pc \in {"for", "setup", "main", "save", "final_save", "end"} =>
                LiveSessions = {}
          /\ pc \in {"get", "extract", "click", "stats", "beyond"} =>
                LiveSessions = {driver} /\ driver = Len(sessions)
    /\ program = "final" =>
          /\ Len(sessions) <= 1
          /\ \A t \in DOMAIN used : used[t] = 1
          /\ FinalInTarget => LiveSessions = {1}

\* Two targets scraped through two sessions, the first closed before the
\* second was opened.
C13_Witness ==
    /\ program = "multi" /\ pc = "extract" /\ idx = 2
    /\ DOMAIN used = {1, 2} /\ used[1] = 1 /\ used[2] = 2
    /\ sessions = <<"quit", "open">>

\* C13 (as stated): at most one session is live and no two targets are
\* scraped through the same session.
C13_FreshSessionPerTarget ==
    /\ Cardinality(LiveSessions) <= 1
    /\ \A t, u \in DOMAIN used : used[t] = used[u] => t = u

\* Target, page and row of the portal that a first cell comes from.
CellKeys == Targets \X (1..(MaxFetches + 2)) \X (1..2)

\* The cells of the portal, each with its target, page, row and column.
PortalCells ==
    {<<Cell(key[1], key[2], key[3], j), key, j>> : key \in CellKeys, j \in 1..W}

FirstPortalCells ==
    {<<Cell(key[1], key[2], key[3], 1), key>> : key \in CellKeys}

\* The target, page and row of a row of the portal, by its first cell.
KeyTable ==
    [c \in {e[1] : e \in FirstPortalCells} |->
        (CHOOSE e \in FirstPortalCells : e[1] = c)[2]] @@ <<>>

KeyOf(c) == KeyTable[c]

\* Key a is not after key b: by target, then page, then row of the table.
NotAfter(a, b) ==
    \/ a[1] < b[1]
    \/ a[1] = b[1] /\ a[2] < b[2]
    \/ a[1] = b[1] /\ a[2] = b[2] /\ a[3] <= b[3]

\* The rows, whose first cell of the portal is at position at, are in the
\* order of the portal: each row is not after the one that follows it.  A
\* header line can only be the first line.
InPortalOrder(rows, at) ==
    \A i \in 1..(Len(rows) - 1) :
        /\ ~IsHeaderLine(rows[i + 1])
        /\ ~IsHeaderLine(rows[i]) =>
              NotAfter(KeyOf(rows[i][at]), KeyOf(rows[i + 1][at]))

IsPrefix(a, b) == Len(a) <= Len(b) /\ SubSeq(b, 1, Len(a)) = a

\* C14: the rows of the buffer, of the accumulated dataset and of the output
\* files are in the order of the targets, of the pages of a target as they
\* were visited and of the rows of a page; a file holds rows of its target
\* only; every file written by save_to_csv holds the accumulated dataset as
\* it was then, which the later groups of main() only add to at the end.
C14_RowsKeepPortalOrder ==
    /\ InPortalOrder(all_data, 1)
    /\ program = "final" =>
          /\ \A k \in DOMAIN all_data : KeyOf(all_data[k][1])[1] = idx
          /\ \A t \in Targets :
                /\ InPortalOrder(files[t], 3)
                /\ \A k \in DOMAIN files[t] :
                      ~IsHeaderLine(files[t][k]) =>
                          KeyOf(files[t][k][3])[1] = t
    /\ program = "multi" =>
          /\ \A k \in DOMAIN snapshots : IsPrefix(snapshots[k].data, all_data)
          /\ \A k \in DOMAIN scraping_stats : k <= idx

\* The batched run has written, after its second group, rows of two pages of
\* the first target followed by a row of the second.
C14_Witness ==
    /\ program = "multi" /\ pc = "end" /\ group = 2
    /\ Len(snapshots) >= 2
    /\ Len(snapshots[2].data) = 3
    /\ KeyOf(snapshots[2].data[1][1]) = <<1, 1, 1>>
    /\ KeyOf(snapshots[2].data[2][1]) = <<1, 2, 1>>
    /\ KeyOf(snapshots[2].data[3][1]) = <<2, 1, 1>>

\* A header that is set stays as it is, until the batch-writing scraper
\* begins its next target.
HeaderKept ==
    (headers # <<>> /\ ~(program = "final" /\ pc = "for"))
        => headers' = headers

HeaderOfRun ==
    /\ program = "final" /\ FinalInTarget =>
          headers \in {<<>>, PortalHeader(idx)}
    /\ program = "multi" =>
          /\ pc \in {"click", "stats"} => headers # <<>>
          /\ \A k \in DOMAIN all_data : Len(all_data[k]) = Len(headers)
          /\ \A k \in DOMAIN snapshots : snapshots[k].columns = headers

\* C15 (as amended): a header that is set is not changed by a later page.
\* The batch-writing scraper sets it once per target, from a page of that
\* target.  The control-discovery scraper sets it once per run, with the
\* first table it extracts from, and keeps it for all later targets and
\* groups: the rows of every target are checked against that header, and it
\* names the columns of every file that save_to_csv writes.
C15_HeaderSetOnce == [](HeaderOfRun) /\ [][HeaderKept]_vars

\* The second target is extracted under the header of the first.
C15_Witness ==
    /\ program = "multi" /\ pc = "click" /\ idx = 2
    /\ dom.hdr = PortalHeader(2)
    /\ headers = Append(PortalHeader(1), "Subsidiary")
    /\ visited[1].extracted > 0

\* C15 (as stated): the header in use for a target is the one of that
\* target's pages (in a run without a malformed page or an exception).
C15_HeaderOfCurrentTarget ==
    faults = 0 =>
        /\ (program = "final" /\ pc \in {"batch", "advance"}) =>
              headers = PortalHeader(idx)
        /\ (program = "multi" /\ pc \in {"click", "stats"}) =>
              headers = Append(PortalHeader(idx), "Subsidiary")

\* The cells are those of one row of the portal, unchanged and in order.
IsPortalRow(cells) ==
    /\ cells # <<>>
    /\ Len(cells) <= W
    /\ LET key == KeyOf(cells[1])
       IN \A j \in DOMAIN cells : <<cells[j], key, j>> \in PortalCells

SourceTarget(cells) == KeyOf(cells[1])[1]

\* C16 (as amended): a data line of an output file of the batch-writing
\* scraper is the name and the id of the file's target followed by the cells
\* of a row of that target, unchanged and in order.  A row of the dataset of
\* the control-discovery scraper is the cells of a row of the portal,
\* unchanged and in order, followed by the name of the target the row comes
\* from, without its id.
C16_RowsCarryTheirTarget ==
    /\ program = "final" =>
          \A t \in Targets :
              \A k \in DOMAIN files[t] :
                  LET line == files[t][k]
                  IN ~IsHeaderLine(line) =>
                        /\ Len(line) > 2
                        /\ line[1] = SUBSIDIARIES[t].name
                        /\ line[2] = SUBSIDIARIES[t].id
                        /\ IsPortalRow(SubSeq(line, 3, Len(line)))
                        /\ KeyOf(line[3])[1] = t
    /\ program = "multi" =>
          \A k \in DOMAIN all_data :
              LET row == all_data[k]
              IN /\ Len(row) > 1
                 /\ IsPortalRow(SubSeq(row, 1, Len(row) - 1))
                 /\ row[Len(row)] = SUBSIDIARIES[SourceTarget(row)].name

\* Files of two targets, each with a line of its own target.
C16_Witness ==
    /\ program = "final" /\ pc = "end"
    /\ DataLines(files[1]) # <<>> /\ DataLines(files[2]) # <<>>
    /\ DataLines(files[2])[1][1] = SUBSIDIARIES[2].name
    /\ SourceTarget(SubSeq(DataLines(files[2])[1], 3, 4)) = 2

\* C16 (as stated): every persisted data row begins with the name and the id
\* of its target.
C16_IdentityPrepended ==
    /\ program = "final" =>
          \A t \in Targets :
              \A k \in DOMAIN DataLines(files[t]) :
                  /\ DataLines(files[t])[k][1] = SUBSIDIARIES[t].name
                  /\ DataLines(files[t])[k][2] = SUBSIDIARIES[t].id
    /\ program = "multi" =>
          \A n \in DOMAIN snapshots :
              \A k \in DOMAIN snapshots[n].data :
                  \E t \in Targets :
                      /\ snapshots[n].data[k][1] = SUBSIDIARIES[t].name
                      /\ snapshots[n].data[k][2] = SUBSIDIARIES[t].id

\* The last target of group k of main(), and the groups that are done.
GroupEndOf(k) == Min(k * batch_size, NumTargets)

GroupsDone ==
    IF program # "multi" \/ group = 0 THEN {}
    ELSE {k \in 1..group : k < group \/ pc \in {"final_save", "end"}}

RowsUpTo(t) == SelectSeq(all_data, LAMBDA row : SourceTarget(row) <= t)

\* The files written by the intermediate save after group k.
SnapshotsOf(k) ==
    {n \in DOMAIN snapshots : snapshots[n].group = k /\ ~snapshots[n].final}

\* C17 (as amended): in the batched run the save after a group writes files
\* only when the dataset gathered so far holds a row; then, unless a write
\* fails, it writes a data file with all rows of the groups so far and a
\* summary file with the result entries of all their targets.  When the
\* dataset is still empty neither file is written.
C17_SnapshotAfterGroup ==
    \A k \in GroupsDone :
        LET rows == RowsUpTo(GroupEndOf(k))
            written == SnapshotsOf(k)
        IN /\ Cardinality(written) <= 1
           /\ \A n \in written :
                 /\ snapshots[n].data = rows
                 /\ snapshots[n].data # <<>>
                 /\ snapshots[n].has_summary =>
                       /\ DOMAIN snapshots[n].summary = 1..GroupEndOf(k)
                       /\ \A t \in 1..GroupEndOf(k) :
                             snapshots[n].summary[t] = scraping_stats[t]
           /\ rows = <<>> => written = {}
           /\ (rows # <<>> /\ faults = 0) =>
                 \E n \in written : snapshots[n].has_summary

\* Both groups done, the second snapshot holding the rows and the results of
\* both.
C17_Witness ==
    /\ program = "multi" /\ pc = "end" /\ group = 2
    /\ \E n \in SnapshotsOf(2) :
          /\ snapshots[n].has_summary
          /\ DOMAIN snapshots[n].summary = {1, 2}
          /\ \E i, j \in DOMAIN snapshots[n].data :
                /\ SourceTarget(snapshots[n].data[i]) = 1
                /\ SourceTarget(snapshots[n].data[j]) = 2

\* C17 (as stated): after every group a data file and a summary file have
\* been written, with all rows and all result entries of the groups so far.
C17_SnapshotAfterEveryGroup ==
    \A k \in GroupsDone :
        \E n \in SnapshotsOf(k) :
            /\ snapshots[n].data = RowsUpTo(GroupEndOf(k))
            /\ snapshots[n].has_summary
            /\ DOMAIN snapshots[n].summary = 1..GroupEndOf(k)

\* C18: every page fetch of the run came after a time.sleep that followed
\* the page fetch before it.
C18_DelayBetweenPageFetches == spaced

\* Where the pacing does hold: a fetch without a delay before it is the
\* first fetch of a target, never a later page of the same target.
UnspacedFetchOpensTarget ==
    (spaced /\ ~spaced') => (Len(visited') <= 1 /\ idx' > 1)

FetchesOfTargetAreSpaced == [][UnspacedFetchOpensTarget]_vars

\* C19: when the page is about to be read for extraction, the wait for the
\* table and the settle delay have run since the last navigation or click.
C19_ReadOnlyAfterWait == (pc = "extract") => waited

\* C20: a page load that timed out does not end the target at once: the
\* control-discovery scraper ends a target on a time-out only with the
\* failure budget used up, and the batch-writing scraper leaves the loop only
\* on a page that was loaded.
C20_TimeoutIsCountedNotFinal ==
    /\ (program = "multi" /\ exit = "timeout") =>
          consecutive_failures >= max_consecutive_failures
    /\ (program = "final" /\ pc = "remaining") => dom.table

\* The name contains a competitor name, compared case-insensitively.
MatchesCompetitor(x) ==
    x # NaN /\ \E k \in DOMAIN CONSULTING_COMPANIES :
                   Contains(Lower(x), Lower(CONSULTING_COMPANIES[k]))

\* C21: after process_dataframe, for every row the flag Is_Consulting is
\* true exactly when the cleaned supplier name contains, compared
\* case-insensitively, a name of the competitor list, and the flag is true
\* exactly when Consulting_Company is set.
C21_FlagIsCaseInsensitiveMatch ==
    (program = "process" /\ pc = "return") =>
        \A k \in DOMAIN df :
            /\ df[k].Is_Consulting <=> MatchesCompetitor(df[k].Lieferant_Clean)
            /\ df[k].Is_Consulting <=> df[k].Consulting_Company # None

\* What the code does: the flag is the case-sensitive match, the company is
\* set on the case-insensitive one, so the flag implies the company.
FlagIsCaseSensitiveMatch ==
    (program = "process" /\ pc = "return") =>
        \A k \in DOMAIN df :
            /\ df[k].Is_Consulting <=> IsConsulting(df[k].Lieferant_Clean)
            /\ df[k].Consulting_Company # None
                  <=> MatchesCompetitor(df[k].Lieferant_Clean)
            /\ df[k].Is_Consulting => df[k].Consulting_Company # None
            /\ df[k].Consulting_Company \in {None, df[k].Lieferant_Clean}

\* The last run ended after a failed upload.
FailedUploadShown ==
    program = "dashboard" /\ pc = "idle" /\ sidebar = "Upload failed"

\* C22: when the uploaded file fails validation, the run reports the error
\* and ends normally, and the original dataset is the active one of that
\* run and of session_state, also when an earlier upload was active.
C22_FailedUploadKeepsOriginal ==
    FailedUploadShown =>
        /\ ~session_state.using_uploaded_data
        /\ df = original_df
        /\ rendered = original_df

\* What the code does on a failed upload: the flag of session_state is off
\* and the original frame itself is unchanged; the frame of the run is the
\* one chosen before the upload was handled.
FailedUploadClearsFlag ==
    /\ FailedUploadShown =>
          /\ ~session_state.using_uploaded_data
          /\ rendered = df
          /\ df \in {original_df, session_state.uploaded_df}
    /\ (/\ program = "dashboard" /\ sidebar = "Upload failed"
        /\ pc \in {"reset", "indicator", "render", "idle"}) =>
          UploadError(uploaded_file) # ""
    /\ program = "dashboard" => original_df \in {OriginalFrame, <<>>}

\* A valid file is in the uploader.
ValidFileUploaded ==
    /\ program = "dashboard"
    /\ original_df # <<>>
    /\ uploaded_file.present
    /\ UploadError(uploaded_file) = ""

\* A run has displayed the selected page with the uploaded dataset active.
UploadedDataRendered ==
    /\ program = "dashboard" /\ pc = "idle"
    /\ session_state.using_uploaded_data
    /\ rendered = session_state.uploaded_df

NoRowTwice(rows) ==
    \A i, j \in DOMAIN rows : rows[i] = rows[j] => i = j

\* C23: in the control-discovery strategy the loop of a target stops when
\* no next-page control is found or when a click leaves the page as it was,
\* so that no row of a rendered page is in the dataset twice.
C23_NoPageAppendedTwice == program = "multi" => NoRowTwice(all_data)

\* What the code does: the loop stops when no control is found or the click
\* raises; after any other click the page is extracted again.
LoopStopsWithoutControl ==
    (program = "multi" /\ pc = "stats" /\ exit \in {"no_next", "click_failed"})
        => Len(visited) = page

\* The sizes of the batches whose write failed (failed = TRUE) or did not.
RECURSIVE SumSizesOf(_, _)
SumSizesOf(fl, failed) ==
    IF fl = <<>> THEN 0
    ELSE (IF fl[1].failed = failed THEN fl[1].size ELSE 0)
         + SumSizesOf(Tail(fl), failed)

\* The rows of the batch are data lines of the file of the target.
BatchInFile(rows, t) ==
    \A k \in DOMAIN rows :
        \E n \in DOMAIN files[t] :
            files[t][n] = <<SUBSIDIARIES[t].name, SUBSIDIARIES[t].id>> \o rows[k]

\* The rows extracted so far are those of the batches written and those in
\* the buffer; the rows of every batch whose write did not fail are in the
\* file, so that only rows of failed batches can be missing.
WriteErrorLosesOnlyItsBatch ==
    program = "final" /\ FinalInTarget =>
        /\ pc # "return" =>
              Len(all_data) + SumSizes(flushes) = total_rows
        /\ \A k \in DOMAIN flushes :
              ~flushes[k].failed => BatchInFile(flushes[k].rows, idx)
        /\ total_rows - Len(DataLines(files[idx]))
              <= Len(all_data) + SumSizesOf(flushes, TRUE)

\* A flush in the loop, failed or not, is followed by the next page.
LoopGoesOnAfterFlush ==
    (program = "final" /\ pc = "batch" /\ Len(flushes') > Len(flushes))
        => pc' = "advance" /\ page' = page /\ all_data' = <<>>

\* C24: a write error during a batch flush does not stop the target: the
\* loop goes on with the next page, later batches are still written,
\* scrape_subsidiary reaches its return, and only rows of the batch whose
\* write failed can be missing from the file.
C24_WriteErrorDoesNotStopTarget ==
    [](WriteErrorLosesOnlyItsBatch) /\ [][LoopGoesOnAfterFlush]_vars

\* scrape_subsidiary has returned after a failed flush in the loop, a later
\* page and a later batch that is in the file.
C24_Witness ==
    /\ program = "final" /\ pc = "return"
    /\ Len(flushes) = 2
    /\ flushes[1].in_loop /\ flushes[1].failed
    /\ ~flushes[2].failed
    /\ Len(visited) > 2
    /\ Len(DataLines(files[idx])) = flushes[2].size

\* The cells of the dataset's header that come from the table.
TableHeader == SubSeq(headers, 1, Len(headers) - 1)

\* C25: the row that was taken as the header, for want of a header section,
\* is never also admitted as a data row, whether the table has a body
\* section or not.
C25_HeaderRowNotAdmitted ==
    (program = "multi" /\ headers # <<>>) =>
        \A k \in DOMAIN all_data :
            SubSeq(all_data[k], 1, Len(all_data[k]) - 1) # TableHeader

\* What the code does: with a header section the header is not a row of the
\* dataset; without one the first row is the header and, when it lies in a
\* body section, a data row as well.
HeaderSectionIsNotData ==
    (program = "multi" /\ pc = "click" /\ page = 1 /\ dom.thead) =>
        \A k \in DOMAIN page_data :
            SubSeq(page_data[k], 1, Len(page_data[k]) - 1) # dom.hdr

\* The result of extract_page_data for a page without a table.
NoTableResult == ExtractPageData(BlankDom, FALSE)

\* C26 (as amended): neither extractor raises: an exception inside it gives
\* the result of a page without a table.  extract_table_data reports
\* success exactly when the page has a table and nothing was raised, also
\* when the table has no row, so that a table without rows differs from no
\* table.  extract_page_data returns the header cells of the header section
\* with an empty row list for a table without body rows, which differs from
\* its result for no table only when the table has a header section.
C26_ExtractorResults ==
    /\ (program = "multi" /\ pc = "extract") =>
          \A raised \in BOOLEAN :
              LET r == ExtractTableData(headers, dom, SUBSIDIARIES[idx].name,
                                        raised)
              IN /\ r.success <=> (dom.table /\ ~raised)
                 /\ ~r.success => r.page_data = <<>> /\ r.headers = headers
                 /\ Len(dom.rows) = 0 => r.page_data = <<>>
    /\ program = "final" =>
          \A raised \in BOOLEAN :
              LET r == ExtractPageData(dom, raised)
              IN /\ (raised \/ ~dom.table) => r = NoTableResult
                 /\ (~raised /\ dom.table) => r[1] = dom.hdr
                 /\ BodyRows(dom) = 0 => r[2] = <<>>
                 /\ (~raised /\ dom.table /\ dom.thead) => r # NoTableResult

\* The extractor has returned for a table without rows that followed a page
\* with rows, and the loop goes on.
C26_Witness ==
    /\ program = "multi" /\ pc = "click"
    /\ dom.table /\ Len(dom.rows) = 0
    /\ Len(visited) = 2
    /\ visited[1].extracted > 0 /\ visited[2].extracted = 0
    /\ consecutive_failures = 1

\* C26 (as stated): the result for a table without body rows differs from
\* the result for a page without a table.
C26_EmptyTableDiffersFromNoTable ==
    /\ (program = "multi" /\ pc = "extract" /\ dom.table /\ Len(dom.rows) = 0)
          => ExtractTableData(headers, dom, SUBSIDIARIES[idx].name,
                              FALSE).success
    /\ (program = "final" /\ dom.table /\ BodyRows(dom) = 0)
          => ExtractPageData(dom, FALSE) # NoTableResult

(***************************************************************************)
(* OffeneVergabenScraper (basic_scraper.py): the run of scrape_all_pages.  *)
(* The scraper has one target, base_url; it is target 1 of the portal.     *)
(***************************************************************************)
\* The values of max_pages the run is started with: None (0), a cap that
\* the pages of the portal reach, and one that they do not reach (as the
\* default of 107 pages).
BasicMaxPagesChoices == {0, 1, 2, MaxFetches + 2}

\* extract_table_data, "Extract headers if not already done".
BasicExtractHeaders(hdrs, d) ==
    IF hdrs # <<>> THEN hdrs
    ELSE IF d.thead THEN d.hdr
    ELSE IF AllTr(d) # <<>> THEN AllTr(d)[1]
    ELSE <<>>

\* extract_table_data, "Extract data rows": the rows looked at.
BasicCandidateRows(hdrs, d) ==
    IF d.tbody THEN d.rows
    ELSE IF hdrs # <<>> /\ AllTr(d) # <<>> THEN Tail(AllTr(d))
    ELSE AllTr(d)

\* extract_table_data() on page d with self.headers = hdrs; raised = an
\* exception inside the try.
BasicExtractTableData(hdrs, d, raised) ==
    IF raised \/ ~d.table
        THEN [success |-> FALSE, headers |-> hdrs, page_data |-> <<>>]
        ELSE LET h == BasicExtractHeaders(hdrs, d)
             IN [success   |-> TRUE,
                 headers   |-> h,
                 page_data |-> SelectSeq(BasicCandidateRows(h, d),
                                  LAMBDA r : Len(r) > 0 /\ Len(r) = Len(h))]

\* What the browser may show after a click on the next control.
BasicClickable ==
    IF endless = 1 THEN {OneRowShape}
    ELSE IF fetches < MaxFetches THEN Servable(1, RegularShapes)
    ELSE {}

InitBasic ==
    /\ program = "basic"
    /\ pc = "setup"
    /\ driver = 0
    /\ sessions = <<>>
    /\ idx = 1
    /\ dom = BlankDom
    /\ page = 0
    /\ headers = <<>>
    /\ all_data = <<>>
    /\ total_rows = 0
    /\ headers_written = FALSE
    /\ has_content = FALSE
    /\ page_data = <<>>
    /\ files = [t \in Targets |-> <<>>]
    /\ grand_total_rows = 0
    /\ visited = <<>>
    /\ flushes = <<>>
    /\ fetches = 0
    /\ faults = 0
    /\ endless \in EndlessChoices
    /\ max_pages \in BasicMaxPagesChoices
    /\ consecutive_failures = 0
    /\ exit = ""
    /\ scraping_stats = <<>>
    /\ used = <<>>
    /\ slept = TRUE
    /\ spaced = TRUE
    /\ waited = FALSE
    /\ group = 0
    /\ snapshots = <<>>
    /\ DashboardIdle

\* What no step of scrape_all_pages writes.
basicRest ==
    <<program, idx, total_rows, page_data, endless, max_pages,
      consecutive_failures, scraping_stats, finalVars, used, paceVars,
      mainVars>>

\* setup_driver inside the try: webdriver.Chrome assigns self.driver, then
\* execute_script runs; either may raise.
BasicSetup ==
    /\ program = "basic" /\ pc = "setup"
    /\ UNCHANGED dashVars
    /\ \/ /\ sessions' = Append(sessions, "open")
          /\ driver' = Len(sessions) + 1
          /\ pc' = "get"
          /\ UNCHANGED <<faults, exit>>
       \/ /\ faults < MaxFaults
          /\ faults' = faults + 1
          /\ \/ UNCHANGED <<sessions, driver>>
             \/ sessions' = Append(sessions, "open") /\ driver' = Len(sessions) + 1
          /\ exit' = "exception"
          /\ pc' = "finally"
    /\ UNCHANGED <<dom, page, headers, all_data, visited, fetches>>
    /\ UNCHANGED basicRest

\* driver.get(base_url), wait_for_page_load and current_page = 1.  The
\* disjuncts: driver.get raises; the page as the portal serves it, with
\* "Failed to load initial page" raised when the wait saw no table.
BasicGet ==
    /\ program = "basic" /\ pc = "get"
    /\ UNCHANGED dashVars
    /\ \/ /\ faults < MaxFaults
          /\ faults' = faults + 1
          /\ exit' = "exception"
          /\ pc' = "finally"
          /\ UNCHANGED <<dom, page, visited, fetches>>
       \/ \E shape \in Servable(1, RegularShapes) :
            LET d == Render(1, 1, shape)
            IN /\ dom' = d
               /\ visited' = <<Visit(1, d)>>
               /\ fetches' = fetches + (IF HasRows(shape) THEN 1 ELSE 0)
               /\ faults' = faults + (IF IsFault(shape) THEN 1 ELSE 0)
               /\ IF ~d.table
                     THEN /\ exit' = "exception"
                          /\ pc' = "finally"
                          /\ UNCHANGED page
                     ELSE /\ page' = 1
                          /\ pc' = "while"
                          /\ UNCHANGED exit
    /\ UNCHANGED <<driver, sessions, headers, all_data>>
    /\ UNCHANGED basicRest

\* while current_page <= max_pages.  The comparison of an int with None
\* raises TypeError.
BasicWhile ==
    /\ program = "basic" /\ pc = "while"
    /\ UNCHANGED dashVars
    /\ IF max_pages = 0
          THEN exit' = "type_error" /\ pc' = "finally"
       ELSE IF page <= max_pages
          THEN pc' = "extract" /\ UNCHANGED exit
       ELSE exit' = "loop_test" /\ pc' = "finally"
    /\ UNCHANGED <<driver, sessions, dom, page, headers, all_data, visited,
                   fetches, faults>>
    /\ UNCHANGED basicRest

\* extract_table_data (a failure is only logged) and the test
\* current_page >= max_pages.
BasicExtract ==
    /\ program = "basic" /\ pc = "extract"
    /\ UNCHANGED dashVars
    /\ \E raised \in (IF faults < MaxFaults THEN BOOLEAN ELSE {FALSE}) :
          LET r == BasicExtractTableData(headers, dom, raised)
          IN /\ faults' = faults + (IF raised THEN 1 ELSE 0)
             /\ headers' = r.headers
             /\ all_data' = Extend(all_data, r.page_data)
             /\ visited' = Extracted(visited, Len(r.page_data))
    /\ IF page >= max_pages
          THEN exit' = "max_pages" /\ pc' = "finally"
          ELSE pc' = "click" /\ UNCHANGED exit
    /\ UNCHANGED <<driver, sessions, dom, page, fetches>>
    /\ UNCHANGED basicRest

\* click_next_page, current_page += 1 and time.sleep(2).  The disjuncts: no
\* next control; an exception inside click_next_page; the click.
BasicClick ==
    /\ program = "basic" /\ pc = "click"
    /\ UNCHANGED dashVars
    /\ \/ /\ endless # 1
          /\ exit' = "no_next"
          /\ pc' = "finally"
          /\ UNCHANGED <<dom, page, visited, fetches, faults>>
       \/ /\ endless # 1
          /\ faults < MaxFaults
          /\ faults' = faults + 1
          /\ exit' = "click_failed"
          /\ pc' = "finally"
          /\ UNCHANGED <<dom, page, visited, fetches>>
       \/ \E shape \in BasicClickable :
            /\ dom' = Render(1, IF endless = 1 THEN 1 ELSE page + 1, shape)
            /\ page' = page + 1
            /\ visited' = Append(visited, Visit(page + 1, dom'))
            /\ fetches' = fetches + 1
            /\ faults' = faults + (IF IsFault(shape) THEN 1 ELSE 0)
            /\ pc' = "while"
            /\ UNCHANGED exit
    /\ UNCHANGED <<driver, sessions, headers, all_data>>
    /\ UNCHANGED basicRest

\* finally: if self.driver: self.driver.quit(); an exception is raised again
\* after it.
BasicFinally ==
    /\ program = "basic" /\ pc = "finally"
    /\ UNCHANGED dashVars
    /\ IF driver # 0
          THEN sessions' = Quit(sessions, driver)
          ELSE UNCHANGED sessions
    /\ pc' = "end"
    /\ UNCHANGED <<driver, dom, page, headers, all_data, visited, fetches,
                   faults, exit>>
    /\ UNCHANGED basicRest

NextBasic ==
    \/ BasicSetup
    \/ BasicGet
    \/ BasicWhile
    \/ BasicExtract
    \/ BasicClick
    \/ BasicFinally

\* The run of basic_scraper.py alone.
SpecBasic == InitBasic /\ [][NextBasic]_vars

\* The runs of the two scrapers with a max_pages parameter.
InitMaxPages == InitMulti \/ InitBasic

NextMaxPages == NextMulti \/ NextBasic

SpecMaxPages == InitMaxPages /\ [][NextMaxPages]_vars

\* The pages of the current target that were loaded and the page counts
\* that were reported stay within cap.
WithinCap(cap) ==
    /\ page <= cap
    /\ Len(visited) <= cap
    /\ \A i \in 1..Len(visited) : visited[i].page <= cap
    /\ program = "multi" =>
          \A t \in DOMAIN scraping_stats : scraping_stats[t].pages <= cap

\* C27 (as stated)  With a max-pages cap M >= 1 a target's loop extracts at
\* most M pages, never clicks to a page beyond M and reports at most M
\* pages; with no cap (None) the loop is never stopped by the cap.
C27_CapBoundsLoopWhenConfigured ==
    program \in {"multi", "basic"} =>
        /\ max_pages # 0 => WithinCap(max_pages)
        /\ max_pages = 0 => exit \notin {"max_pages", "type_error"}

\* C27 (amended)  With a max-pages cap M >= 1 a target's loop extracts at
\* most M pages, never clicks to a page beyond M and reports at most M
\* pages, in both scrapers.  With None, the multi-target scraper's loop is
\* never stopped by the cap; the single-target scraper's loop test raises
\* TypeError on None before any page is extracted.
C27_CapBoundsLoop ==
    program \in {"multi", "basic"} =>
        /\ max_pages # 0 => WithinCap(max_pages)
        /\ max_pages = 0 /\ program = "multi" => exit # "max_pages"
        /\ max_pages = 0 /\ program = "basic" /\ pc \in {"finally", "end"} /\ page >= 1 =>
              /\ exit = "type_error"
              /\ all_data = <<>>
              /\ \A i \in 1..Len(visited) : visited[i].extracted = 0

C27_Witness ==
    /\ program = "multi"
    /\ pc = "finally"
    /\ exit = "max_pages"
    /\ max_pages >= 1
    /\ Len(visited) = max_pages
    /\ idx \in DOMAIN scraping_stats
    /\ scraping_stats[idx].pages = max_pages

\* The name each target's rows are tagged with.
NameOf == [t \in Targets |-> SUBSIDIARIES[t].name] @@ <<>>

\* The rows of the accumulated dataset whose last cell is the name of t.
TaggedRows(t) ==
    Len(SelectSeq(all_data, LAMBDA r : Len(r) > 0 /\ r[Len(r)] = NameOf[t]))

RECURSIVE SumContracts(_)
SumContracts(ts) ==
    IF ts = {} THEN 0
    ELSE LET t == CHOOSE x \in ts : TRUE
         IN scraping_stats[t].contracts + SumContracts(ts \ {t})

\* C28  For every target with a result, the recorded row count (contracts)
\* equals the number of rows of the accumulated dataset tagged with that
\* target; a target whose status is not completed has contributed no row and
\* a completed one at least one; when scrape_all_subsidiaries has returned,
\* the recorded counts add up to the size of the dataset.
C28_RecordedCountsMatchDataset ==
    program = "multi" =>
        /\ \A t \in DOMAIN scraping_stats :
              /\ scraping_stats[t].contracts = TaggedRows(t)
              /\ scraping_stats[t].status # "completed" => TaggedRows(t) = 0
              /\ scraping_stats[t].status = "completed" => TaggedRows(t) >= 1
        /\ pc \in {"end", "save", "final_save"} =>
              SumContracts(DOMAIN scraping_stats) = Len(all_data)

C28_Witness ==
    /\ program = "multi"
    /\ pc = "end"
    /\ \E t \in DOMAIN scraping_stats :
          scraping_stats[t].status = "completed" /\ scraping_stats[t].contracts >= 2
    /\ \E t \in DOMAIN scraping_stats : scraping_stats[t].status = "no_data"
    /\ Len(all_data) >= 2

\* The runs of the three scrapers.
InitScrapers == Init \/ InitBasic

NextScrapers == Next \/ NextBasic

SpecScrapers == InitScrapers /\ [][NextScrapers]_vars

\* C29  When a run ends, on every path, no browser session is open: every
\* session that was created has been quit, and quit exactly once, as the
\* finally clause that calls quit() finds the session of self.driver open
\* and no session is open that self.driver does not refer to.
C29_EverySessionQuitOnce ==
    program \in {"final", "multi", "basic"} =>
        /\ pc = "end" => \A k \in DOMAIN sessions : sessions[k] = "quit"
        /\ pc = "finally" /\ driver # 0 =>
              driver \in DOMAIN sessions /\ sessions[driver] = "open"
        /\ \A k \in DOMAIN sessions : sessions[k] = "open" => k = driver

\* Runs that have ended with every session quit: the single-target run
\* after an exception that followed the creation of its session.
BasicEndedAfterException ==
    /\ program = "basic" /\ pc = "end"
    /\ exit = "exception" /\ visited = <<>>
    /\ sessions = <<"quit">>

\* The batch-writing run after its target list.
FinalEndedAfterTargets ==
    /\ program = "final" /\ pc = "end"
    /\ idx = NumTargets
    /\ sessions = <<"quit">>

\* The control-discovery run whose last target ended with an exception, a
\* session having been created for every target.
C29_Witness ==
    /\ program = "multi" /\ pc = "end"
    /\ exit = "exception"
    /\ Len(sessions) = NumTargets
    /\ \A k \in DOMAIN sessions : sessions[k] = "quit"

====
